---- MODULE Spec2Model ----
(***************************************************************************)
(* Playback daemon of auto_break_player: the tick loop of                  *)
(* playback_daemon.py over the Session State row, the Schedule and Command *)
(* tables, the player backend (player.py) and the relay (gpio_control.py). *)
(*                                                                         *)
(* Time is the wall clock in whole seconds, 0 = Monday 00:00:00.  One tick *)
(* of run_forever is the sequence of the five step actions; the steps of   *)
(* one tick read the same second of the clock, the clock advances between  *)
(* ticks.  External writers (the web API) insert Command rows; an insert   *)
(* is seen by the next SELECT of _tick_commands, so it is placed between   *)
(* two ticks.  A cvlc subprocess may exit before any step that reads it.   *)
(***************************************************************************)
EXTENDS Integers, Sequences, FiniteSets, TLC

\* ---------------------------------------------------------------- bounds
MaxCommands == 2
\* tokens of a day expression, items of an iterable of days
MaxTokens == 3
\* reference times tried after each base time
MaxRefs == 4
\* definitions in the bootstrap schedule list
MaxDefs == 2
\* a tick is followed every TickStep seconds of the wall clock, for MaxElapsed
\* (schedules) or QueueElapsed (command queue) such steps
TickStep == 10
MaxElapsed == 7
QueueElapsed == 3

\* ------------------------------------------------------ program constants
NONE == -1000
\* a payload value that int() raises on: JSON null, a non-numeric string
BAD == -2000
VolumeDefault == 70
SessionDefaultMinutes == 15
DebounceSeconds == 50
MinDurationSeconds == 30
\* Tuesday 09:29:50
StartClock == 86400 + 9 * 3600 + 29 * 60 + 50

\* call: a call of one of the helpers of schedule_utils.py: the function, its
\* arguments and what it returned or raised ("none": no call is followed)
\* cvlc: a CVLCPlayer object followed call by call with its writer thread
\* ([main |-> "none"]: the player is followed as a whole, in the variable player)
\* boot: what the first tick of this daemon process has met so far: "playing"
\* the process was constructed on a state row with status playing and no session
\* has started since, "started" one has; "none" the row said idle, or the first
\* tick has completed
VARIABLES clock, pc, playlists, schedules, commands, state, player, relay,
          current_track_ids, trace, starts, drained, env, call, cvlc, boot

vars == <<clock, pc, playlists, schedules, commands, state, player, relay,
          current_track_ids, trace, starts, drained, env, call, cvlc, boot>>

\* ------------------------------------------------------------ wall clock
Digits == <<"0", "1", "2", "3", "4", "5", "6", "7", "8", "9">>

TwoDigits(n) == <<Digits[(n \div 10) + 1], Digits[(n % 10) + 1]>>

Weekday(t) == (t \div 86400) % 7

WeekdayStr(t) == Digits[Weekday(t) + 1]

MinuteKey(t) ==
    TwoDigits((t % 86400) \div 3600) \o <<":">> \o TwoDigits((t % 3600) \div 60)

MinuteOf(t) == t \div 60

Max(a, b) == IF a >= b THEN a ELSE b

Min(a, b) == IF a <= b THEN a ELSE b

\* ------------------------------------------------- tracks (Track table)
TrackIds == {1, 2, 3, 4}

TrackDuration(t) == IF t = 1 THEN 40 ELSE IF t = 2 THEN 10 ELSE NONE

FileExists(t) == t \in {1, 2, 3}

\* ------------------------------------------------------ relay controller
\* relay: enabled is self.enabled (the configured flag and RPi.GPIO importable),
\* written tells that _last_state is not None, pin is the level of the last
\* GPIO.output on the relay pin ("none": no hardware write has happened)
\* faulty variant: in mock mode the write is dropped, the logical state too
RelayWriteMockDrops(rl, level) ==
    IF ~rl.enabled
    THEN rl
    ELSE [rl EXCEPT !.pin = IF level THEN "high" ELSE "low",
                    !.last_state = level, !.written = TRUE]

RelayWrite(rl, level) ==
    IF ~rl.enabled
    THEN [rl EXCEPT !.last_state = level, !.written = TRUE]
    ELSE [rl EXCEPT !.pin = IF level THEN "high" ELSE "low",
                    !.last_state = level, !.written = TRUE]

\* faulty variant: power_on writes nothing
RelayPowerOnNoWrite(rl) == rl

RelayPowerOn(rl) == RelayWrite(rl, rl.active_high)

\* faulty variant: power_off writes the active level
RelayPowerOffActive(rl) == RelayWrite(rl, rl.active_high)

RelayPowerOff(rl) == RelayWrite(rl, ~rl.active_high)

IsPowerOn(rl) == rl.written /\ rl.last_state = rl.active_high

\* the controller after its constructor
NewRelay(enabled, active_high) ==
    LET r == [enabled |-> enabled, active_high |-> active_high,
              written |-> FALSE, last_state |-> FALSE, pin |-> "none"]
    IN  IF enabled THEN RelayPowerOff(r) ELSE r

\* --------------------------------------------------------- player backend
\* backend "dummy" is DummyPlayer, "cvlc" is CVLCPlayer; process is the
\* subprocess handle of CVLCPlayer: "none", "alive" or "exited".
PlayerStop(p) ==
    IF p.backend = "dummy"
    THEN [p EXCEPT !.playing = FALSE, !.index = -1]
    ELSE [p EXCEPT !.playing = FALSE, !.process = "none", !.index = -1]

PlayerLoadPlaylist(p, files) ==
    LET q == IF p.backend = "dummy" THEN p ELSE PlayerStop(p)
    IN  [q EXCEPT !.files = files,
                  !.index = IF files # <<>> THEN 0 ELSE -1,
                  !.playing = FALSE]

PlayerPlay(p) ==
    IF p.backend = "dummy"
    THEN IF p.files = <<>> THEN p ELSE [p EXCEPT !.playing = TRUE]
    ELSE LET q == IF p.process = "none" /\ p.files # <<>>
                  THEN [p EXCEPT !.process = "alive"]
                  ELSE p
         IN  IF q.process # "none" THEN [q EXCEPT !.playing = TRUE] ELSE q

PlayerSetVolume(p, volume) == [p EXCEPT !.volume = Max(0, Min(100, volume))]

PlayerIsPlaying(p) ==
    IF p.backend = "dummy"
    THEN p.playing
    ELSE p.process = "alive" /\ p.playing

\* update(): the player after the poll; the value returned is PlayerUpdateIdx
PlayerUpdate(p) ==
    IF p.backend = "cvlc" /\ p.process = "exited"
    THEN [p EXCEPT !.process = "none", !.playing = FALSE, !.index = -1]
    ELSE p

PlayerUpdateIdx(p) == IF p.backend = "dummy" THEN NONE ELSE PlayerUpdate(p).index

PlayerCurrentIndex(p) == p.index

PlayerSkip(p) ==
    IF p.backend = "dummy"
    THEN IF p.files = <<>> THEN p
         ELSE IF p.index + 1 < Len(p.files)
              THEN [p EXCEPT !.index = p.index + 1]
              ELSE PlayerStop(p)
    ELSE IF p.process # "none" /\ p.files # <<>>
         THEN [p EXCEPT !.index = (p.index + 1) % Len(p.files)]
         ELSE p

\* --- make_player --------------------------------------------------------
\* env: vlc_backend is the configured backend name; vlc and cvlc tell whether
\* VLCPlayer() (python-vlc importable) and CVLCPlayer() (a VLC executable is
\* found) can be constructed on this machine.  DummyPlayer() cannot fail.
Lower(backend) ==
    CASE backend = "AUTO" -> "auto"
      [] backend = "Dummy" -> "dummy"
      [] OTHER -> backend

\* the constructor's outcome: the backend constructed, or "raise"
Construct(class, vlc_ok, cvlc_ok) ==
    CASE class = "vlc" -> IF vlc_ok THEN "vlc" ELSE "raise"
      [] class = "cvlc" -> IF cvlc_ok THEN "cvlc" ELSE "raise"
      [] class = "dummy" -> "dummy"

\* faulty variant: "auto" falls back from VLC to the simulated backend only
MakePlayerNoCvlc(backend, vlc_ok, cvlc_ok) ==
    LET b == Lower(backend)
    IN  CASE b \in {"vlc", "cvlc", "dummy"} -> Construct(b, vlc_ok, cvlc_ok)
          [] b = "auto" ->
               IF Construct("vlc", vlc_ok, cvlc_ok) # "raise"
               THEN Construct("vlc", vlc_ok, cvlc_ok)
               ELSE Construct("dummy", vlc_ok, cvlc_ok)
          [] OTHER -> "raise"

MakePlayer(backend, vlc_ok, cvlc_ok) ==
    LET b == Lower(backend)
    IN  CASE b \in {"vlc", "cvlc", "dummy"} -> Construct(b, vlc_ok, cvlc_ok)
          [] b = "auto" ->
               IF Construct("vlc", vlc_ok, cvlc_ok) # "raise"
               THEN Construct("vlc", vlc_ok, cvlc_ok)
               ELSE IF Construct("cvlc", vlc_ok, cvlc_ok) # "raise"
               THEN Construct("cvlc", vlc_ok, cvlc_ok)
               ELSE Construct("dummy", vlc_ok, cvlc_ok)
          [] OTHER -> "raise"

\* the player object after its constructor
NewPlayer(b) ==
    [backend |-> b, files |-> <<>>, index |-> -1, playing |-> FALSE,
     volume |-> 70, process |-> "none"]

\* ------------------------------------------------------- daemon handlers
\* Ev: what a handler did, in the order it did it: a relay write, a player
\* call, a commit of the state row, a row of the logs table.  The arg of
\* commit_idle is the session_end_at that the commit cleared.
\* A handler maps the world W (everything the daemon can write: the state
\* row, the player, the relay, current_track_ids, the Schedule and Command
\* tables, and the record of what the running step did) to the world after
\* it.  now is the value of dt.datetime.now() read by the handler.
Ev(name, arg) == [ev |-> name, arg |-> arg]

Emit(W, name, arg) == [W EXCEPT !.trace = Append(@, Ev(name, arg))]

PlaylistFiles(playlist_id) ==
    IF playlist_id \in DOMAIN playlists THEN playlists[playlist_id] ELSE <<>>

\* faulty variant: the session starts without the relay being powered on
StartTracksNoRelay(W, file_paths, track_ids, duration_seconds, playlist_id, now) ==
    IF file_paths = <<>>
    THEN W
    ELSE LET duration == Max(MinDurationSeconds, duration_seconds)
             volume == IF W.state.volume # 0 THEN W.state.volume
                       ELSE VolumeDefault
             W2 == Emit([W EXCEPT !.player =
                            PlayerPlay(PlayerSetVolume(
                                PlayerLoadPlaylist(@, file_paths), volume))],
                        "player_play", 0)
             W3 == [W2 EXCEPT
                       !.state = [@ EXCEPT
                           !.volume = volume,
                           !.status = "playing",
                           !.playlist_id = playlist_id,
                           !.session_end_at = now + duration,
                           !.power_on = TRUE,
                           !.current_track_id =
                               IF track_ids # <<>> THEN track_ids[1] ELSE NONE],
                       !.cur = track_ids]
         IN  Emit(W3, "commit_playing", 0)

StartTracks(W, file_paths, track_ids, duration_seconds, playlist_id, now) ==
    IF file_paths = <<>>
    THEN W
    ELSE LET duration == Max(MinDurationSeconds, duration_seconds)
             volume == IF W.state.volume # 0 THEN W.state.volume
                       ELSE VolumeDefault
             W1 == IF ~IsPowerOn(W.relay)
                   THEN Emit([W EXCEPT !.relay = RelayPowerOn(@)], "relay_on", 0)
                   ELSE W
             W2 == Emit([W1 EXCEPT !.player =
                            PlayerPlay(PlayerSetVolume(
                                PlayerLoadPlaylist(@, file_paths), volume))],
                        "player_play", 0)
             W3 == [W2 EXCEPT
                       !.state = [@ EXCEPT
                           !.volume = volume,
                           !.status = "playing",
                           !.playlist_id = playlist_id,
                           !.session_end_at = now + duration,
                           !.power_on = TRUE,
                           !.current_track_id =
                               IF track_ids # <<>> THEN track_ids[1] ELSE NONE],
                       !.cur = track_ids]
         IN  Emit(W3, "commit_playing", 0)

\* faulty variant: the minutes are passed on as the duration in seconds
StartSessionMinutesAsSeconds(W, playlist_id, minutes, reason, now) ==
    LET files == PlaylistFiles(playlist_id)
    IN  IF files = <<>>
        THEN Emit(W, "warn_playlist_empty", playlist_id)
        ELSE Emit(StartTracks(W, files, files, minutes, playlist_id, now),
                  "session_started", reason)

\* reason: 0 for a command, the schedule id for schedule:<id>
StartSession(W, playlist_id, minutes, reason, now) ==
    LET files == PlaylistFiles(playlist_id)
    IN  IF files = <<>>
        THEN Emit(W, "warn_playlist_empty", playlist_id)
        ELSE Emit(StartTracks(W, files, files, minutes * 60, playlist_id, now),
                  "session_started", reason)

\* faulty variant: the stop leaves current_track_id in the state row
StopSessionKeepsTrack(W, now) ==
    IF W.state.status # "playing" /\ ~IsPowerOn(W.relay)
    THEN W
    ELSE LET W1 == Emit([W EXCEPT !.player = PlayerStop(@)], "player_stop", 0)
             W2 == IF IsPowerOn(W1.relay)
                   THEN Emit([W1 EXCEPT !.relay = RelayPowerOff(@)], "relay_off", 0)
                   ELSE W1
             W3 == [W2 EXCEPT
                       !.state = [@ EXCEPT
                           !.status = "idle",
                           !.playlist_id = NONE,
                           !.session_end_at = NONE,
                           !.power_on = FALSE],
                       !.cur = <<>>]
         IN  Emit(W3, "commit_idle", W.state.session_end_at)

StopSession(W, now) ==
    IF W.state.status # "playing" /\ ~IsPowerOn(W.relay)
    THEN W
    ELSE LET W1 == Emit([W EXCEPT !.player = PlayerStop(@)], "player_stop", 0)
             W2 == IF IsPowerOn(W1.relay)
                   THEN Emit([W1 EXCEPT !.relay = RelayPowerOff(@)], "relay_off", 0)
                   ELSE W1
             W3 == [W2 EXCEPT
                       !.state = [@ EXCEPT
                           !.status = "idle",
                           !.playlist_id = NONE,
                           !.session_end_at = NONE,
                           !.current_track_id = NONE,
                           !.power_on = FALSE],
                       !.cur = <<>>]
         IN  Emit(W3, "commit_idle", W.state.session_end_at)

\* faulty variant: the preview starts over a playing session without stopping it
StartPreviewNoInterrupt(W, track_id, now) ==
    IF track_id \notin TrackIds
    THEN Emit(W, "warn_preview_track_missing", track_id)
    ELSE IF ~FileExists(track_id)
    THEN Emit(W, "warn_preview_file_missing", track_id)
    ELSE LET W1 == W
             d0 == IF TrackDuration(track_id) # NONE /\ TrackDuration(track_id) # 0
                   THEN TrackDuration(track_id)
                   ELSE SessionDefaultMinutes * 60
             duration == Max(MinDurationSeconds, d0)
         IN  Emit(StartTracks(W1, <<track_id>>, <<track_id>>, duration, NONE, now),
                  "preview_started", track_id)

\* faulty variant: the playing session is stopped before the track is looked up
StartPreviewStopsFirst(W, track_id, now) ==
    LET W1 == IF W.state.status = "playing" THEN StopSession(W, now) ELSE W
    IN  IF track_id \notin TrackIds
        THEN Emit(W1, "warn_preview_track_missing", track_id)
        ELSE IF ~FileExists(track_id)
        THEN Emit(W1, "warn_preview_file_missing", track_id)
        ELSE LET d0 == IF TrackDuration(track_id) # NONE /\ TrackDuration(track_id) # 0
                       THEN TrackDuration(track_id)
                       ELSE SessionDefaultMinutes * 60
                 duration == Max(MinDurationSeconds, d0)
             IN  Emit(StartTracks(W1, <<track_id>>, <<track_id>>, duration, NONE, now),
                      "preview_started", track_id)

StartPreview(W, track_id, now) ==
    IF track_id \notin TrackIds
    THEN Emit(W, "warn_preview_track_missing", track_id)
    ELSE IF ~FileExists(track_id)
    THEN Emit(W, "warn_preview_file_missing", track_id)
    ELSE LET W1 == IF W.state.status = "playing" THEN StopSession(W, now) ELSE W
             d0 == IF TrackDuration(track_id) # NONE /\ TrackDuration(track_id) # 0
                   THEN TrackDuration(track_id)
                   ELSE SessionDefaultMinutes * 60
             duration == Max(MinDurationSeconds, d0)
         IN  Emit(StartTracks(W1, <<track_id>>, <<track_id>>, duration, NONE, now),
                  "preview_started", track_id)

\* faulty variant: any existing playlist is taken when there are several
ResolvePlaylistAny ==
    IF Cardinality(DOMAIN playlists) >= 1
    THEN CHOOSE p \in DOMAIN playlists : \A q \in DOMAIN playlists : p <= q
    ELSE NONE

ResolvePlaylist ==
    IF Cardinality(DOMAIN playlists) = 1
    THEN CHOOSE p \in DOMAIN playlists : TRUE
    ELSE NONE

\* the world of the current state
World ==
    [state |-> state, player |-> player, relay |-> relay,
     cur |-> current_track_ids, trace |-> <<>>,
     schedules |-> schedules, commands |-> commands, starts |-> starts]

\* --- _tick_schedules ----------------------------------------------------
InList(x, seq) == \E i \in 1..Len(seq) : seq[i] = x

\* faulty variant: the weekday of the schedule is not looked at
ScheduleDueAnyDay(sched, now) ==
    /\ sched.start_time = MinuteKey(now)
    /\ ~(sched.last_fired_at # NONE /\ now - sched.last_fired_at < DebounceSeconds)
    /\ sched.playlist_id # NONE

ScheduleDue(sched, now) ==
    /\ InList(WeekdayStr(now), sched.days)
    /\ sched.start_time = MinuteKey(now)
    /\ ~(sched.last_fired_at # NONE /\ now - sched.last_fired_at < DebounceSeconds)
    /\ sched.playlist_id # NONE

CountStart(st, s, now) ==
    IF st[s].minute = MinuteOf(now)
    THEN [st EXCEPT ![s].n = @ + 1]
    ELSE [st EXCEPT ![s] = [minute |-> MinuteOf(now), n |-> 1]]

\* faulty variant: last_fired_at is stamped only when the session has started
FireScheduleStampOnStart(W, s, now) ==
    LET sched == W.schedules[s]
    IN  IF ~ScheduleDue(sched, now)
        THEN W
        ELSE LET minutes == IF sched.session_minutes # 0 THEN sched.session_minutes
                            ELSE SessionDefaultMinutes
                 W1 == StartSession(W, sched.playlist_id, minutes, s, now)
             IN  IF PlaylistFiles(sched.playlist_id) # <<>>
                 THEN [W1 EXCEPT !.starts = CountStart(@, s, now),
                                 !.schedules[s].last_fired_at = now]
                 ELSE W1

FireSchedule(W, s, now) ==
    LET sched == W.schedules[s]
    IN  IF ~ScheduleDue(sched, now)
        THEN W
        ELSE LET minutes == IF sched.session_minutes # 0 THEN sched.session_minutes
                            ELSE SessionDefaultMinutes
                 W1 == StartSession(W, sched.playlist_id, minutes, s, now)
                 W2 == IF PlaylistFiles(sched.playlist_id) # <<>>
                       THEN [W1 EXCEPT !.starts = CountStart(@, s, now)]
                       ELSE W1
             IN  [W2 EXCEPT !.schedules[s].last_fired_at = now]

RECURSIVE FireAll(_, _, _)
FireAll(W, ids, now) ==
    IF ids = <<>> THEN W
    ELSE FireAll(FireSchedule(W, Head(ids), now), Tail(ids), now)

\* rows of an id set in ascending id order (SQLite's scan order)
RECURSIVE Ascending(_)
Ascending(S) ==
    IF S = {} THEN <<>>
    ELSE LET m == CHOOSE x \in S : \A y \in S : x <= y
         IN  <<m>> \o Ascending(S \ {m})

EnabledSchedules == Ascending({s \in DOMAIN schedules : schedules[s].enabled})

\* --- _tick_commands -----------------------------------------------------
\* what one command does, up to the commit of its handler
CommandEffect(W, id, now) ==
    LET c == W.commands[id]
        W0 == Emit(W, "apply", id)
        W1 ==
          CASE c.type = "PLAY" ->
                 LET minutes == IF c.minutes # NONE THEN c.minutes
                                ELSE SessionDefaultMinutes
                     playlist_id == IF c.playlist_id # NONE THEN c.playlist_id
                                    ELSE ResolvePlaylist
                 IN  IF playlist_id = NONE
                     THEN Emit(W0, "warn_no_playlist", 0)
                     ELSE StartSession(W0, playlist_id, minutes, 0, now)
            [] c.type = "STOP" -> StopSession(W0, now)
            [] c.type = "SET_VOLUME" ->
                 LET volume == IF c.volume # NONE THEN c.volume ELSE VolumeDefault
                 IN  [W0 EXCEPT !.player = PlayerSetVolume(@, volume),
                                !.state.volume = volume]
            [] c.type = "SKIP" ->
                 LET p == PlayerSkip(W0.player)
                     idx == PlayerCurrentIndex(p)
                 IN  [W0 EXCEPT !.player = p,
                                !.state.current_track_id =
                                    IF 0 <= idx /\ idx < Len(W0.cur)
                                    THEN W0.cur[idx + 1] ELSE @]
            [] c.type = "POWER_ON" ->
                 Emit([W0 EXCEPT !.relay = RelayPowerOn(@),
                                 !.state.power_on = TRUE], "relay_on", 0)
            [] c.type = "POWER_OFF" ->
                 Emit([W0 EXCEPT !.relay = RelayPowerOff(@),
                                 !.state.power_on = FALSE], "relay_off", 0)
            [] c.type = "PREVIEW" ->
                 IF c.track_id = NONE
                 THEN Emit(W0, "warn_preview_no_track_id", 0)
                 ELSE StartPreview(W0, c.track_id, now)
            [] OTHER -> W0
    IN  W1

\* the body of the loop: the effect, then command.processed_at = now, commit
ApplyCommand(W, id, now) ==
    [CommandEffect(W, id, now) EXCEPT !.commands[id].processed_at = now]

\* int(...) of a payload value raises TypeError / ValueError before the
\* command has had any effect
Raises(c) ==
    \/ c.type = "PLAY" /\ (c.minutes = BAD \/ c.playlist_id = BAD)
    \/ c.type = "SET_VOLUME" /\ c.volume = BAD
    \/ c.type = "PREVIEW" /\ c.track_id = BAD

Raised(W) == \E k \in 1..Len(W.trace) : W.trace[k].ev = "raise"

AppliedIds(W) ==
    LET a == SelectSeq(W.trace, LAMBDA e : e.ev = "apply")
    IN  [k \in 1..Len(a) |-> a[k].arg]

RECURSIVE ApplyAll(_, _, _)
ApplyAll(W, ids, now) ==
    IF ids = <<>> THEN W
    ELSE IF Raises(W.commands[Head(ids)]) THEN Emit(W, "raise", Head(ids))
    ELSE ApplyAll(ApplyCommand(W, Head(ids), now), Tail(ids), now)

\* faulty variant: the pending commands in descending created_at order
RECURSIVE OrderByCreatedAtDesc(_, _)
OrderByCreatedAtDesc(cmds, S) ==
    IF S = {} THEN <<>>
    ELSE LET m == CHOOSE x \in S : \A y \in S :
                      \/ cmds[x].created_at > cmds[y].created_at
                      \/ cmds[x].created_at = cmds[y].created_at /\ x >= y
         IN  <<m>> \o OrderByCreatedAtDesc(cmds, S \ {m})

\* ORDER BY created_at; rows of equal created_at come out in rowid order
RECURSIVE OrderByCreatedAt(_, _)
OrderByCreatedAt(cmds, S) ==
    IF S = {} THEN <<>>
    ELSE LET m == CHOOSE x \in S : \A y \in S :
                      \/ cmds[x].created_at < cmds[y].created_at
                      \/ cmds[x].created_at = cmds[y].created_at /\ x <= y
         IN  <<m>> \o OrderByCreatedAt(cmds, S \ {m})

\* faulty variant: the query forgets the processed_at IS NULL filter
PendingAll(cmds) == {i \in 1..Len(cmds) : TRUE}

Pending(cmds) == {i \in 1..Len(cmds) : cmds[i].processed_at = NONE}

PendingCommands == OrderByCreatedAt(commands, Pending(commands))

\* --- _tick_player -------------------------------------------------------
\* faulty variant: the poll reconciles current_track_id and never ends the session
PollPlayerNoStop(W, now) ==
    LET p == PlayerUpdate(W.player)
        r == PlayerUpdateIdx(W.player)
        idx == IF r = NONE THEN PlayerCurrentIndex(p) ELSE r
    IN  [W EXCEPT !.player = p,
                  !.state.current_track_id =
                      IF idx >= 0 /\ idx < Len(W.cur) THEN W.cur[idx + 1]
                      ELSE IF idx < 0 THEN NONE ELSE @]

\* faulty variant: the session ends only when this process holds its track list
PollPlayerOwnSession(W, now) ==
    LET p == PlayerUpdate(W.player)
        r == PlayerUpdateIdx(W.player)
        idx == IF r = NONE THEN PlayerCurrentIndex(p) ELSE r
        W1 == [W EXCEPT !.player = p,
                        !.state.current_track_id =
                            IF idx >= 0 /\ idx < Len(W.cur) THEN W.cur[idx + 1]
                            ELSE IF idx < 0 THEN NONE ELSE @]
    IN  IF /\ ~PlayerIsPlaying(p) /\ W1.state.status = "playing" /\ idx = -1
           /\ W.cur # <<>>
        THEN StopSession(W1, now)
        ELSE W1

PollPlayer(W, now) ==
    LET p == PlayerUpdate(W.player)
        r == PlayerUpdateIdx(W.player)
        idx == IF r = NONE THEN PlayerCurrentIndex(p) ELSE r
        W1 == [W EXCEPT !.player = p,
                        !.state.current_track_id =
                            IF idx >= 0 /\ idx < Len(W.cur) THEN W.cur[idx + 1]
                            ELSE IF idx < 0 THEN NONE ELSE @]
    IN  IF ~PlayerIsPlaying(p) /\ W1.state.status = "playing" /\ idx = -1
        THEN StopSession(W1, now)
        ELSE W1

\* --- _tick_session_timeout ----------------------------------------------
\* faulty variant: the session ends only after its end time has passed
SessionTimeoutLate(W, now) ==
    IF W.state.status # "playing" \/ W.state.session_end_at = NONE
    THEN W
    ELSE IF now > W.state.session_end_at THEN StopSession(W, now) ELSE W

SessionTimeout(W, now) ==
    IF W.state.status # "playing" \/ W.state.session_end_at = NONE
    THEN W
    ELSE IF now >= W.state.session_end_at THEN StopSession(W, now) ELSE W

\* --------------------------------------------------------- schedule_utils
\* A Python str is the sequence of its characters.  A function that raises
\* returns ValueError in place of a value.
ValueError == -3000

LowerCase ==
    <<"a", "b", "c", "d", "e", "f", "g", "h", "i", "j", "k", "l", "m",
      "n", "o", "p", "q", "r", "s", "t", "u", "v", "w", "x", "y", "z">>

UpperCase ==
    <<"A", "B", "C", "D", "E", "F", "G", "H", "I", "J", "K", "L", "M",
      "N", "O", "P", "Q", "R", "S", "T", "U", "V", "W", "X", "Y", "Z">>

Upper(s) ==
    [i \in 1..Len(s) |->
        IF \E k \in 1..26 : LowerCase[k] = s[i]
        THEN UpperCase[CHOOSE k \in 1..26 : LowerCase[k] = s[i]]
        ELSE s[i]]

Whitespace == {" ", "\t"}

RECURSIVE Strip(_)
Strip(s) ==
    IF s # <<>> /\ Head(s) \in Whitespace THEN Strip(Tail(s))
    ELSE IF s # <<>> /\ s[Len(s)] \in Whitespace
    THEN Strip(SubSeq(s, 1, Len(s) - 1))
    ELSE s

Replace(s, old, new) == [i \in 1..Len(s) |-> IF s[i] = old THEN new ELSE s[i]]

Find(s, sep) ==
    IF \E i \in 1..Len(s) : s[i] = sep
    THEN CHOOSE i \in 1..Len(s) : s[i] = sep /\ \A j \in 1..(i - 1) : s[j] # sep
    ELSE 0

\* s.split(sep): "".split(",") is [""]
RECURSIVE Split(_, _)
Split(s, sep) ==
    IF Find(s, sep) = 0 THEN <<s>>
    ELSE <<SubSeq(s, 1, Find(s, sep) - 1)>>
             \o Split(SubSeq(s, Find(s, sep) + 1, Len(s)), sep)

\* s.split(sep, 1)
SplitOnce(s, sep) ==
    IF Find(s, sep) = 0 THEN <<s>>
    ELSE <<SubSeq(s, 1, Find(s, sep) - 1), SubSeq(s, Find(s, sep) + 1, Len(s))>>

\* list(range(a, b))
Range(a, b) == [i \in 1..(b - a) |-> a + i - 1]

DAY_ALIASES ==
    { <<<<"0">>, 0>>,
      <<<<"1">>, 1>>,
      <<<<"2">>, 2>>,
      <<<<"3">>, 3>>,
      <<<<"4">>, 4>>,
      <<<<"5">>, 5>>,
      <<<<"6">>, 6>>,
      <<<<"S", "U", "N">>, 6>>,
      <<<<"S", "U", "N", "D", "A", "Y">>, 6>>,
      <<<<"M", "O", "N">>, 0>>,
      <<<<"M", "O", "N", "D", "A", "Y">>, 0>>,
      <<<<"T", "U", "E">>, 1>>,
      <<<<"T", "U", "E", "S", "D", "A", "Y">>, 1>>,
      <<<<"W", "E", "D">>, 2>>,
      <<<<"W", "E", "D", "N", "E", "S", "D", "A", "Y">>, 2>>,
      <<<<"T", "H", "U">>, 3>>,
      <<<<"T", "H", "U", "R">>, 3>>,
      <<<<"T", "H", "U", "R", "S", "D", "A", "Y">>, 3>>,
      <<<<"F", "R", "I">>, 4>>,
      <<<<"F", "R", "I", "D", "A", "Y">>, 4>>,
      <<<<"S", "A", "T">>, 5>>,
      <<<<"S", "A", "T", "U", "R", "D", "A", "Y">>, 5>> }

ParseSingleDay(token) ==
    IF \E a \in DAY_ALIASES : a[1] = token
    THEN (CHOOSE a \in DAY_ALIASES : a[1] = token)[2]
    ELSE ValueError

HasRaised(values) == \E i \in 1..Len(values) : values[i] = ValueError

ExpandToken(token) ==
    LET upper == Upper(token)
    IN  IF upper \in {<<"W", "E", "E", "K", "D", "A", "Y">>, <<"W", "E", "E", "K", "D", "A", "Y", "S">>}
        THEN Range(0, 5)
        ELSE IF upper \in {<<"W", "E", "E", "K", "E", "N", "D">>, <<"W", "E", "E", "K", "E", "N", "D", "S">>}
        THEN <<5, 6>>
        ELSE IF Find(upper, "-") # 0
        THEN LET start == ParseSingleDay(Strip(SplitOnce(upper, "-")[1]))
                 end == ParseSingleDay(Strip(SplitOnce(upper, "-")[2]))
             IN  IF start = ValueError \/ end = ValueError THEN <<ValueError>>
                 ELSE IF start <= end THEN Range(start, end + 1)
                 ELSE Range(start, 7) \o Range(0, end + 1)
        ELSE <<ParseSingleDay(upper)>>

\* an item of an iterable: an int n or a str s
IntItem(n) == [kind |-> "int", n |-> n, s |-> <<>>]

StrItem(s) == [kind |-> "str", n |-> 0, s |-> s]

CoerceItem(item) ==
    LET value == IF item.kind = "int" THEN item.n
                 ELSE ParseSingleDay(Upper(Strip(item.s)))
    IN  IF value = ValueError \/ value < 0 \/ value > 6 THEN ValueError
        ELSE value

CoerceIterableDays(items) == [i \in 1..Len(items) |-> CoerceItem(items[i])]

RECURSIVE Flatten(_)
Flatten(lists) ==
    IF lists = <<>> THEN <<>> ELSE Head(lists) \o Flatten(Tail(lists))

\* ",".join(str(item) for item in values), values within 0..9
RECURSIVE JoinDays(_)
JoinDays(values) ==
    IF values = <<>> THEN <<>>
    ELSE IF Len(values) = 1 THEN <<Digits[values[1] + 1]>>
    ELSE <<Digits[values[1] + 1], ",">> \o JoinDays(Tail(values))

\* the argument of normalise_days: None, a str, an iterable, or another object
NoneArg == [type |-> "none", s |-> <<>>, items |-> <<>>]

StrArg(s) == [type |-> "str", s |-> s, items |-> <<>>]

ListArg(items) == [type |-> "list", s |-> <<>>, items |-> items]

IntArg == [type |-> "int", s |-> <<>>, items |-> <<>>]

Returned(value) == [raised |-> FALSE, value |-> value]

RaisedValueError == [raised |-> TRUE, value |-> <<>>]

\* a call that returns a datetime or None raised ValueError
RaisedNoValue == [raised |-> TRUE, value |-> NONE]

\* faulty variant: the values are joined in the order of the expression
NormaliseDaysUnsorted(days) ==
    IF days.type = "none"
    THEN Returned(JoinDays(Range(0, 7)))
    ELSE LET raw == Split(Replace(days.s, "/", ","), ",")
             tokens == SelectSeq([i \in 1..Len(raw) |-> Strip(raw[i])],
                                 LAMBDA t : t # <<>>)
             values ==
                 IF days.type = "str"
                 THEN Flatten([i \in 1..Len(tokens) |-> ExpandToken(tokens[i])])
                 ELSE IF days.type = "list"
                 THEN CoerceIterableDays(days.items)
                 ELSE <<ValueError>>
         IN  IF HasRaised(values) THEN RaisedValueError
             ELSE Returned(JoinDays(values))

NormaliseDays(days) ==
    IF days.type = "none"
    THEN Returned(JoinDays(Range(0, 7)))
    ELSE LET raw == Split(Replace(days.s, "/", ","), ",")
             tokens == SelectSeq([i \in 1..Len(raw) |-> Strip(raw[i])],
                                 LAMBDA t : t # <<>>)
             values ==
                 IF days.type = "str"
                 THEN Flatten([i \in 1..Len(tokens) |-> ExpandToken(tokens[i])])
                 ELSE IF days.type = "list"
                 THEN CoerceIterableDays(days.items)
                 ELSE <<ValueError>>
         IN  IF HasRaised(values) THEN RaisedValueError
             ELSE Returned(JoinDays(
                      Ascending({values[i] : i \in 1..Len(values)})))

\* int(text): surrounding whitespace and one sign are accepted
RECURSIVE DigitsValue(_)
DigitsValue(s) ==
    IF s = <<>> THEN 0
    ELSE 10 * DigitsValue(SubSeq(s, 1, Len(s) - 1))
             + (CHOOSE k \in 1..10 : Digits[k] = s[Len(s)]) - 1

IntOf(text) ==
    LET s == Strip(text)
        signed == s # <<>> /\ Head(s) \in {"+", "-"}
        body == IF signed THEN Tail(s) ELSE s
    IN  IF body = <<>> \/ \E i \in 1..Len(body) :
                              \A k \in 1..10 : Digits[k] # body[i]
        THEN ValueError
        ELSE IF signed /\ Head(s) = "-" THEN 0 - DigitsValue(body)
        ELSE DigitsValue(body)

\* the list returned, or <<ValueError>>
ParseDayString(days) ==
    IF days.type = "none" \/ days.s = <<>>
    THEN Range(0, 7)
    ELSE LET raw == Split(days.s, ",")
             items == SelectSeq(raw, LAMBDA t : Strip(t) # <<>>)
             parsed == [i \in 1..Len(items) |-> IntOf(Strip(items[i]))]
         IN  IF HasRaised(parsed) THEN <<ValueError>>
             ELSE IF parsed = <<>> THEN Range(0, 7)
             ELSE IF \E i \in 1..Len(parsed) : parsed[i] < 0 \/ parsed[i] > 6
             THEN <<ValueError>>
             ELSE Ascending({parsed[i] : i \in 1..Len(parsed)})

\* the first offset in range(14) from which the candidate is not before the
\* reference, or 14
RECURSIVE FirstOffset(_, _, _, _)
FirstOffset(offset, days, start, reference) ==
    IF offset >= 14 THEN 14
    ELSE IF /\ InList(Weekday(reference + offset * 86400), days)
            /\ (reference \div 86400 + offset) * 86400 + start >= reference
    THEN offset
    ELSE FirstOffset(offset + 1, days, start, reference)

\* faulty variant: an occurrence at the reference minute itself is passed over
NextOccurrenceAfter(schedule, ref) ==
    LET days == ParseDayString(schedule.days)
        start_time == IF schedule.start_time.type = "none"
                         \/ schedule.start_time.s = <<>>
                      THEN <<"0", "0", ":", "0", "0">>
                      ELSE schedule.start_time.s
        parts == SplitOnce(start_time, ":")
        hour == IntOf(parts[1])
        minute == IntOf(parts[2])
        reference == ref - (ref % 60)
        start == hour * 3600 + minute * 60
        offset == FirstOffset(0, days, start - 60, reference)
    IN  IF HasRaised(days) THEN RaisedNoValue
        ELSE IF days = <<>> THEN Returned(NONE)
        ELSE IF Len(parts) # 2 THEN Returned(NONE)
        ELSE IF hour = ValueError \/ minute = ValueError THEN Returned(NONE)
        ELSE IF hour \notin 0..23 \/ minute \notin 0..59 THEN RaisedNoValue
        ELSE IF offset = 14 THEN Returned(NONE)
        ELSE Returned((reference \div 86400 + offset) * 86400 + start)

\* schedule: the days and start_time attributes, each a str or None;
\* ref: the reference datetime in seconds
NextOccurrence(schedule, ref) ==
    LET days == ParseDayString(schedule.days)
        start_time == IF schedule.start_time.type = "none"
                         \/ schedule.start_time.s = <<>>
                      THEN <<"0", "0", ":", "0", "0">>
                      ELSE schedule.start_time.s
        parts == SplitOnce(start_time, ":")
        hour == IntOf(parts[1])
        minute == IntOf(parts[2])
        reference == ref - (ref % 60)
        start == hour * 3600 + minute * 60
        offset == FirstOffset(0, days, start, reference)
    IN  IF HasRaised(days) THEN RaisedNoValue
        ELSE IF days = <<>> THEN Returned(NONE)
        ELSE IF Len(parts) # 2 THEN Returned(NONE)
        ELSE IF hour = ValueError \/ minute = ValueError THEN Returned(NONE)
        ELSE IF hour \notin 0..23 \/ minute \notin 0..59 THEN RaisedNoValue
        ELSE IF offset = 14 THEN Returned(NONE)
        ELSE Returned((reference \div 86400 + offset) * 86400 + start)

\* --- resolve_playlist, _apply_bootstrap_schedules ------------------------
\* Playlist.name of the playlists 1 and 2
PlaylistName(p) == IF p = 1 THEN <<"M", "i", "x">> ELSE <<"A", "l", "t">>

\* the playlist reference of a definition: absent, an int or a str
IdRef(n) == [type |-> "int", n |-> n, s |-> <<>>]

NameRef(s) == [type |-> "str", n |-> 0, s |-> s]

IsDigit(s) == s # <<>> /\ \A i \in 1..Len(s) : \E k \in 1..10 : Digits[k] = s[i]

\* the id of the playlist, or ValueError
ResolvePlaylistRef(identifier) ==
    IF identifier.type = "int"
    THEN IF identifier.n \in DOMAIN playlists THEN identifier.n ELSE ValueError
    ELSE IF identifier.type # "str" THEN ValueError
    ELSE LET token == Strip(identifier.s)
             named == {p \in DOMAIN playlists : PlaylistName(p) = token}
         IN  IF token = <<>> THEN ValueError
             ELSE IF IsDigit(token) /\ DigitsValue(token) \in DOMAIN playlists
             THEN DigitsValue(token)
             ELSE IF named # {} THEN CHOOSE p \in named : TRUE
             ELSE ValueError

\* Schedule.days as _tick_schedules reads it: sched.days.split(",")
StoredDays(text) ==
    [i \in 1..Len(Split(text, ",")) |->
        IF Split(text, ",")[i] = <<>> THEN "" ELSE Split(text, ",")[i][1]]

\* the id of the first row of that name, or 0
FindSchedule(scheds, name) ==
    IF \E i \in 1..Len(scheds) : scheds[i].name = name
    THEN CHOOSE i \in 1..Len(scheds) :
             scheds[i].name = name /\ \A j \in 1..(i - 1) : scheds[j].name # name
    ELSE 0

\* B: the Schedule table and the rows written to the logs table
BootLog(B, name, arg) == [B EXCEPT !.log = Append(@, Ev(name, arg))]

\* faulty variant: every definition inserts a row, also when its name exists
ApplyDefinitionInserts(B, index, entry) ==
    LET name == Strip(entry.name)
        playlist == ResolvePlaylistRef(entry.playlist)
        start_time == Strip(entry.time)
        minutes == IF entry.minutes = NONE THEN SessionDefaultMinutes
                   ELSE IF entry.minutes = BAD THEN SessionDefaultMinutes
                   ELSE Max(1, entry.minutes)
        days == IF NormaliseDays(entry.days).raised
                THEN NormaliseDays(NoneArg).value
                ELSE NormaliseDays(entry.days).value
        enabled == entry.enabled # "false"
        warned == IF NormaliseDays(entry.days).raised
                  THEN BootLog(B, "warn_invalid_days", index)
                  ELSE B
    IN  IF ~entry.mapping THEN BootLog(B, "warn_not_a_mapping", index)
        ELSE IF name = <<>> THEN BootLog(B, "warn_missing_name", index)
        ELSE IF entry.playlist.type = "none"
        THEN BootLog(B, "warn_missing_playlist", index)
        ELSE IF playlist = ValueError
        THEN BootLog(B, "warn_playlist_not_found", index)
        ELSE IF start_time = <<>>
        THEN BootLog(B, "warn_missing_start_time", index)
        ELSE BootLog([warned EXCEPT !.schedules = Append(@,
                         [name |-> name, playlist_id |-> playlist,
                          days |-> StoredDays(days), start_time |-> start_time,
                          session_minutes |-> minutes, enabled |-> enabled,
                          last_fired_at |-> NONE])],
                     "bootstrap_applied", Len(B.schedules) + 1)

\* faulty variant: a definition without a start time is applied
ApplyDefinitionNoTimeCheck(B, index, entry) ==
    LET name == Strip(entry.name)
        playlist == ResolvePlaylistRef(entry.playlist)
        start_time == Strip(entry.time)
        minutes == IF entry.minutes = NONE THEN SessionDefaultMinutes
                   ELSE IF entry.minutes = BAD THEN SessionDefaultMinutes
                   ELSE Max(1, entry.minutes)
        days == IF NormaliseDays(entry.days).raised
                THEN NormaliseDays(NoneArg).value
                ELSE NormaliseDays(entry.days).value
        enabled == entry.enabled # "false"
        warned == IF NormaliseDays(entry.days).raised
                  THEN BootLog(B, "warn_invalid_days", index)
                  ELSE B
        id == FindSchedule(B.schedules, name)
    IN  IF ~entry.mapping THEN BootLog(B, "warn_not_a_mapping", index)
        ELSE IF name = <<>> THEN BootLog(B, "warn_missing_name", index)
        ELSE IF entry.playlist.type = "none"
        THEN BootLog(B, "warn_missing_playlist", index)
        ELSE IF playlist = ValueError
        THEN BootLog(B, "warn_playlist_not_found", index)
        ELSE IF id # 0
        THEN BootLog([warned EXCEPT !.schedules[id] =
                         [@ EXCEPT !.playlist_id = playlist,
                                   !.days = StoredDays(days),
                                   !.start_time = start_time,
                                   !.session_minutes = minutes,
                                   !.enabled = enabled]],
                     "bootstrap_applied", id)
        ELSE BootLog([warned EXCEPT !.schedules = Append(@,
                         [name |-> name, playlist_id |-> playlist,
                          days |-> StoredDays(days), start_time |-> start_time,
                          session_minutes |-> minutes, enabled |-> enabled,
                          last_fired_at |-> NONE])],
                     "bootstrap_applied", Len(B.schedules) + 1)

\* one definition of the list: entry.mapping tells isinstance(entry, dict);
\* name and time are the texts of the keys ("" when absent), minutes is NONE
\* when absent and BAD when int() raises on it, enabled is "absent", "true"
\* or "false"
ApplyDefinition(B, index, entry) ==
    LET name == Strip(entry.name)
        playlist == ResolvePlaylistRef(entry.playlist)
        start_time == Strip(entry.time)
        minutes == IF entry.minutes = NONE THEN SessionDefaultMinutes
                   ELSE IF entry.minutes = BAD THEN SessionDefaultMinutes
                   ELSE Max(1, entry.minutes)
        days == IF NormaliseDays(entry.days).raised
                THEN NormaliseDays(NoneArg).value
                ELSE NormaliseDays(entry.days).value
        enabled == entry.enabled # "false"
        warned == IF NormaliseDays(entry.days).raised
                  THEN BootLog(B, "warn_invalid_days", index)
                  ELSE B
        id == FindSchedule(B.schedules, name)
    IN  IF ~entry.mapping THEN BootLog(B, "warn_not_a_mapping", index)
        ELSE IF name = <<>> THEN BootLog(B, "warn_missing_name", index)
        ELSE IF entry.playlist.type = "none"
        THEN BootLog(B, "warn_missing_playlist", index)
        ELSE IF playlist = ValueError
        THEN BootLog(B, "warn_playlist_not_found", index)
        ELSE IF start_time = <<>>
        THEN BootLog(B, "warn_missing_start_time", index)
        ELSE IF id # 0
        THEN BootLog([warned EXCEPT !.schedules[id] =
                         [@ EXCEPT !.playlist_id = playlist,
                                   !.days = StoredDays(days),
                                   !.start_time = start_time,
                                   !.session_minutes = minutes,
                                   !.enabled = enabled]],
                     "bootstrap_applied", id)
        ELSE BootLog([warned EXCEPT !.schedules = Append(@,
                         [name |-> name, playlist_id |-> playlist,
                          days |-> StoredDays(days), start_time |-> start_time,
                          session_minutes |-> minutes, enabled |-> enabled,
                          last_fired_at |-> NONE])],
                     "bootstrap_applied", Len(B.schedules) + 1)

RECURSIVE ApplyDefinitions(_, _, _)
ApplyDefinitions(B, index, definitions) ==
    IF index > Len(definitions) THEN B
    ELSE ApplyDefinitions(ApplyDefinition(B, index, definitions[index]),
                          index + 1, definitions)

ApplyBootstrapSchedules(scheds, definitions) ==
    ApplyDefinitions([schedules |-> scheds, log |-> <<>>], 1, definitions)

\* ------------------------------------------------------------ initial state
Recess ==
    [name |-> <<"R", "e", "c", "e", "s", "s">>,
     playlist_id |-> 1, days |-> <<"0", "1", "2", "3", "4">>,
     start_time |-> <<"0", "9", ":", "3", "0">>, session_minutes |-> 15,
     enabled |-> TRUE, last_fired_at |-> NONE]

ScheduleConfigs ==
    { <<Recess>>,
      <<[Recess EXCEPT !.enabled = FALSE], [Recess EXCEPT !.days = <<"5", "6">>]>>,
      <<[Recess EXCEPT !.playlist_id = 2],
        [Recess EXCEPT !.start_time = <<"0", "9", ":", "3", "1">>,
                       !.session_minutes = 1]>>,
      <<[Recess EXCEPT !.playlist_id = NONE],
        [Recess EXCEPT !.session_minutes = 1]>> }

PlaylistConfigs ==
    { [p \in {} |-> <<>>],
      [p \in {1} |-> <<1, 2>>],
      [p \in {1, 2} |-> IF p = 1 THEN <<1, 2>> ELSE <<>>] }

RelayConfigs == { NewRelay(FALSE, TRUE), NewRelay(TRUE, FALSE) }

Backends == {"dummy", "cvlc"}

InitWith(P, S, B, R) ==
    /\ clock = StartClock
    /\ pc = "schedules"
    /\ playlists \in P
    /\ schedules \in S
    /\ commands = <<>>
    /\ state = [status |-> "idle", current_track_id |-> NONE,
                playlist_id |-> NONE, volume |-> VolumeDefault,
                session_end_at |-> NONE, power_on |-> FALSE,
                heartbeat_at |-> StartClock]
    /\ \E b \in B :
           /\ env = [vlc_backend |-> b, vlc |-> FALSE, cvlc |-> b = "cvlc",
                     bootstrap_schedules |-> <<>>]
           /\ player = NewPlayer(MakePlayer(b, FALSE, b = "cvlc"))
    /\ relay \in R
    /\ current_track_ids = <<>>
    /\ trace = <<>>
    /\ starts = [s \in DOMAIN schedules |-> [minute |-> NONE, n |-> 0]]
    /\ drained = <<>>
    /\ call = [fn |-> "none"]
    /\ cvlc = [main |-> "none"]
    /\ boot = "none"

\* ------------------------------------------------------------------ actions
Commit(W) ==
    /\ state' = W.state
    /\ player' = W.player
    /\ relay' = W.relay
    /\ current_track_ids' = W.cur
    /\ trace' = W.trace
    /\ schedules' = W.schedules
    /\ commands' = W.commands
    /\ starts' = W.starts
    /\ boot' = IF /\ boot = "playing"
                  /\ \E k \in 1..Len(W.trace) : W.trace[k].ev = "commit_playing"
               THEN "started"
               ELSE boot

TickSchedules ==
    /\ pc = "schedules"
    /\ Commit(FireAll(World, EnabledSchedules, clock))
    /\ pc' = "commands"
    /\ UNCHANGED <<cvlc, call, env, clock, playlists, drained>>

\* run_forever, finally: player.stop() and relay.cleanup()
Shutdown(W) ==
    Emit(Emit([W EXCEPT !.player = PlayerStop(@)], "player_stop", 0),
         "relay_cleanup", 0)

\* an exception raised by a command leaves _tick_commands and run_forever,
\* which catches KeyboardInterrupt only: the process ends
TickCommands ==
    /\ pc = "commands"
    /\ LET W == ApplyAll(World, PendingCommands, clock)
       IN  IF Raised(W)
           THEN /\ Commit(Shutdown(W))
                /\ drained' = AppliedIds(W)
                /\ pc' = "crashed"
           ELSE /\ Commit(W)
                /\ drained' = PendingCommands
                /\ pc' = "player"
    /\ UNCHANGED <<cvlc, call, env, clock, playlists>>

TickPlayer ==
    /\ pc = "player"
    /\ Commit(PollPlayer(World, clock))
    /\ pc' = "timeout"
    /\ UNCHANGED <<cvlc, call, env, clock, playlists, drained>>

TickSessionTimeout ==
    /\ pc = "timeout"
    /\ Commit(SessionTimeout(World, clock))
    /\ pc' = "heartbeat"
    /\ UNCHANGED <<cvlc, call, env, clock, playlists, drained>>

Heartbeat ==
    /\ pc = "heartbeat"
    /\ state' = [state EXCEPT !.heartbeat_at = clock]
    /\ trace' = <<>>
    /\ boot' = "none"
    /\ pc' = "schedules"
    /\ UNCHANGED <<cvlc, call, env, clock, playlists, drained, schedules,
                   commands, player, relay, current_track_ids, starts>>

\* the loop sleeps between two ticks and the wall clock moves on; the loop
\* period is 0.5 s, so a tick has completed in every TickStep seconds
AdvanceClock(horizon) ==
    /\ pc = "schedules"
    /\ state.heartbeat_at = clock
    /\ clock + TickStep - StartClock <= horizon * TickStep
    /\ clock' = clock + TickStep
    /\ UNCHANGED <<boot, cvlc, call, env, pc, playlists, schedules, commands, state, player, relay,
                   current_track_ids, trace, starts, drained>>

\* an external writer inserts a Command row (enqueue_command)
NewCommand(type, playlist_id, minutes, volume, track_id) ==
    [type |-> type, playlist_id |-> playlist_id, minutes |-> minutes,
     volume |-> volume, track_id |-> track_id]

Enqueue(k) ==
    /\ pc = "schedules"
    /\ Len(commands) < MaxCommands
    /\ commands' = Append(commands,
           [type |-> k.type, playlist_id |-> k.playlist_id,
            minutes |-> k.minutes, volume |-> k.volume,
            track_id |-> k.track_id, created_at |-> clock,
            processed_at |-> NONE])
    /\ UNCHANGED <<boot, cvlc, call, env, clock, pc, playlists, schedules, state, player, relay,
                   current_track_ids, trace, starts, drained>>

EnqueueFrom(K) == \E k \in K : Enqueue(k)

\* the cvlc subprocess ends (playlist played to its end, or the process died)
ProcessExit ==
    /\ pc \in {"schedules", "commands", "player"}
    /\ player.backend = "cvlc"
    /\ player.process = "alive"
    /\ player' = [player EXCEPT !.process = "exited"]
    /\ UNCHANGED <<boot, cvlc, call, env, clock, pc, playlists, schedules, commands, state, relay,
                   current_track_ids, trace, starts, drained>>

Tick ==
    \/ TickSchedules
    \/ TickCommands
    \/ TickPlayer
    \/ TickSessionTimeout
    \/ Heartbeat

NextWith(K, horizon) ==
    \/ Tick
    \/ AdvanceClock(horizon)
    \/ EnqueueFrom(K)
    \/ ProcessExit

Play(pl, m) == NewCommand("PLAY", pl, m, NONE, NONE)

SetVolume(v) == NewCommand("SET_VOLUME", NONE, NONE, v, NONE)

Preview(t) == NewCommand("PREVIEW", NONE, NONE, NONE, t)

Plain(t) == NewCommand(t, NONE, NONE, NONE, NONE)

\* --- schedules: every schedule configuration, STOP as the only command
InitSched ==
    InitWith(PlaylistConfigs \ {[p \in {} |-> <<>>]}, ScheduleConfigs, Backends,
             RelayConfigs)

NextSched == NextWith({Plain("STOP")}, MaxElapsed)

SpecSched == InitSched /\ [][NextSched]_vars

\* --- the command queue: the commands that start, change and end sessions
MockRelay == NewRelay(FALSE, TRUE)

TwoPlaylists == [p \in {1, 2} |-> IF p = 1 THEN <<1, 2>> ELSE <<>>]

InitQueue ==
    InitWith({TwoPlaylists}, {<<[Recess EXCEPT !.session_minutes = 1]>>},
             Backends, {MockRelay})

NextQueue == NextWith(
        { Play(1, 1), Plain("STOP"), Plain("SKIP"), Plain("POWER_ON"),
          Plain("POWER_OFF"), Preview(2) },
        QueueElapsed)

Spec == InitQueue /\ [][NextQueue]_vars

\* --- every command type
NextAll == NextWith(
        { Play(1, 1), Preview(2), Plain("STOP"), Plain("SKIP"),
          SetVolume(30), Plain("POWER_ON"), Plain("POWER_OFF") },
        QueueElapsed)

SpecAll == InitQueue /\ [][NextAll]_vars

\* --- commands that cannot be applied, next to commands that can
NextReject == NextWith(
        { Play(9, 1), Play(2, 1), Preview(NONE), Preview(9),
          Preview(4), Plain("REWIND"), Play(1, 1) },
        QueueElapsed)

SpecReject == InitQueue /\ [][NextReject]_vars

\* --- PLAY with and without playlist_id and minutes, over 0, 1 and 2 playlists
InitPlay ==
    InitWith(PlaylistConfigs, {<<[Recess EXCEPT !.session_minutes = 1]>>},
             Backends, {MockRelay})

NextPlay == NextWith(
        { Play(1, NONE), Play(1, 1), Play(1, 0), Play(NONE, 1),
          Plain("STOP") },
        QueueElapsed)

SpecPlay == InitPlay /\ [][NextPlay]_vars

\* --- SET_VOLUME with in-range, out-of-range and absent volume
NextVolume == NextWith(
        { SetVolume(150), SetVolume(-5), SetVolume(0), SetVolume(30),
          SetVolume(NONE), Play(1, 1) },
        QueueElapsed)

SpecVolume == InitQueue /\ [][NextVolume]_vars

\* --- sessions that reach their end time: no schedule fires, PLAY of the
\* --- minimum duration and a preview of a short track
InitTimeout ==
    InitWith({TwoPlaylists}, {<<[Recess EXCEPT !.enabled = FALSE]>>},
             Backends, RelayConfigs)

NextTimeout == NextWith(
        { Play(1, 0), Preview(2), Plain("SKIP"), Plain("POWER_ON") },
        QueueElapsed)

SpecTimeout == InitTimeout /\ [][NextTimeout]_vars

\* --- the relay and power_on: power commands, the API's power hint, and a
\* --- restart of the daemon on the existing database
\* api_power: the handler writes the desired power_on into the state row and
\* inserts the POWER_ON / POWER_OFF command
ApiPower(desired) ==
    /\ pc = "schedules"
    /\ Len(commands) < MaxCommands
    /\ state' = [state EXCEPT !.power_on = desired]
    /\ commands' = Append(commands,
           [type |-> IF desired THEN "POWER_ON" ELSE "POWER_OFF",
            playlist_id |-> NONE, minutes |-> NONE, volume |-> NONE,
            track_id |-> NONE, created_at |-> clock, processed_at |-> NONE])
    /\ UNCHANGED <<boot, cvlc, call, env, clock, pc, playlists, schedules, player, relay,
                   current_track_ids, trace, starts, drained>>

\* PlaybackDaemon.__init__: the bootstrap schedule list of the configuration
\* is applied to the Schedule table, its log rows are the record of the step
Bootstrap ==
    LET B == ApplyBootstrapSchedules(schedules, env.bootstrap_schedules)
    IN  /\ schedules' = B.schedules
        /\ trace' = B.log
        /\ starts' = [s \in DOMAIN B.schedules |->
                          IF s \in DOMAIN starts THEN starts[s]
                          ELSE [minute |-> NONE, n |-> 0]]

\* the daemon process ends between two ticks, or has ended on an error, and
\* a new one is started on the same database: the tables and the state row stay, the player, the relay
\* controller and current_track_ids are constructed anew
Restart ==
    /\ pc \in {"schedules", "crashed"}
    /\ pc' = "schedules"
    /\ player' = NewPlayer(player.backend)
    /\ relay' = NewRelay(relay.enabled, relay.active_high)
    /\ current_track_ids' = <<>>
    /\ Bootstrap
    /\ drained' = <<>>
    /\ boot' = IF state.status = "playing" THEN "playing" ELSE "none"
    /\ UNCHANGED <<cvlc, call, env, clock, playlists, commands, state>>

InitPower ==
    InitWith({TwoPlaylists}, {<<[Recess EXCEPT !.session_minutes = 1]>>},
             Backends, RelayConfigs)

NextPower ==
    \/ NextWith(
            { Plain("POWER_ON"), Plain("POWER_OFF"), Plain("STOP"),
              Play(1, 1) },
            QueueElapsed)
    \/ \E desired \in BOOLEAN : ApiPower(desired)
    \/ Restart

SpecPower == InitPower /\ [][NextPower]_vars

\* --- payloads that do not have the shape of their type, next to well-formed
\* --- commands; a supervisor restarts the daemon when it has ended
NextMalformed ==
    \/ NextWith(
            { Play(1, BAD), Play(BAD, 1), SetVolume(BAD), Preview(BAD),
              Play(1, 1), Plain("STOP") },
            QueueElapsed)
    \/ Restart

SpecMalformed == InitQueue /\ [][NextMalformed]_vars

\* --- the daemon process is killed inside _tick_commands
\* the process dies after the handler of a pending command has committed its
\* writes and before command.processed_at is committed; the commands before
\* it in the queue were applied and stamped
CrashInCommand ==
    /\ pc = "commands"
    /\ \E k \in 1..Len(PendingCommands) :
           LET before == ApplyAll(World, SubSeq(PendingCommands, 1, k - 1), clock)
               W == CommandEffect(before, PendingCommands[k], clock)
           IN  /\ ~Raised(before)
               /\ ~Raises(commands[PendingCommands[k]])
               /\ Commit(W)
               /\ drained' = AppliedIds(before)
    /\ pc' = "crashed"
    /\ UNCHANGED <<cvlc, call, env, clock, playlists>>

NextCrash ==
    \/ NextWith(
            { Play(1, 1), Plain("STOP"), Plain("POWER_ON"), Plain("SKIP") },
            QueueElapsed)
    \/ CrashInCommand
    \/ Restart

SpecCrash == InitQueue /\ [][NextCrash]_vars

\* --- an external stop signal
\* KeyboardInterrupt is raised in the main thread wherever it is: between two
\* ticks (in time.sleep) or between two steps of a tick; run_forever passes
\* on it and runs its finally block
StopSignal ==
    /\ pc \in {"schedules", "commands", "player", "timeout", "heartbeat"}
    /\ Commit(Shutdown(World))
    /\ pc' = "stopped"
    /\ UNCHANGED <<cvlc, call, env, clock, playlists, drained>>

NextStop ==
    \/ NextWith({ Play(1, 1), Plain("STOP"), Plain("SKIP") }, QueueElapsed)
    \/ StopSignal

SpecStop == InitQueue /\ [][NextStop]_vars

\* --- start of the daemon: the player is built by make_player from the
\* --- configured vlc_backend on machines with and without VLC
InitBoot ==
    /\ clock = StartClock
    /\ pc = "init"
    /\ playlists = TwoPlaylists
    /\ schedules = <<[Recess EXCEPT !.session_minutes = 1]>>
    /\ commands = <<>>
    /\ state = [status |-> "idle", current_track_id |-> NONE,
                playlist_id |-> NONE, volume |-> VolumeDefault,
                session_end_at |-> NONE, power_on |-> FALSE,
                heartbeat_at |-> StartClock]
    /\ env \in [vlc_backend : {"auto", "AUTO", "vlc", "cvlc", "dummy", "mpv"}, vlc : BOOLEAN, cvlc : BOOLEAN,
                 bootstrap_schedules : {<<>>}]
    /\ player = NewPlayer("none")
    /\ relay = MockRelay
    /\ current_track_ids = <<>>
    /\ trace = <<>>
    /\ starts = [s \in DOMAIN schedules |-> [minute |-> NONE, n |-> 0]]
    /\ drained = <<>>
    /\ call = [fn |-> "none"]
    /\ cvlc = [main |-> "none"]
    /\ boot = "none"

\* PlaybackDaemon.__init__: the bootstrap schedules are applied, then
\* self.player = make_player(backend); an exception of make_player ends the
\* process; the ticks of a daemon on the native VLC backend are not followed
StartDaemon ==
    /\ pc = "init"
    /\ Bootstrap
    /\ LET made == MakePlayer(env.vlc_backend, env.vlc, env.cvlc)
       IN  IF made = "raise"
           THEN pc' = "crashed" /\ player' = player
           ELSE /\ player' = NewPlayer(made)
                /\ pc' = IF made = "vlc" THEN "vlc" ELSE "schedules"
    /\ UNCHANGED <<boot, cvlc, call, env, clock, playlists, commands, state, relay,
                   current_track_ids, drained>>

NextBoot ==
    \/ StartDaemon
    \/ NextWith({ Play(1, 1), Plain("SKIP") }, QueueElapsed)

SpecBoot == InitBoot /\ [][NextBoot]_vars

\* --- SKIP commands during the session of a playlist with a single track
InitSkip ==
    InitWith({[p \in {1} |-> <<1>>]}, {<<[Recess EXCEPT !.session_minutes = 1]>>},
             Backends, {MockRelay})

NextSkip == NextWith({ Plain("SKIP"), Plain("STOP") }, QueueElapsed)

SpecSkip == InitSkip /\ [][NextSkip]_vars

\* --- the relay in both polarities, with and without the GPIO hardware
InitRelay ==
    InitWith({TwoPlaylists}, {<<[Recess EXCEPT !.session_minutes = 1]>>},
             {"cvlc"}, { NewRelay(enabled, active_high) : enabled \in BOOLEAN, active_high \in BOOLEAN })

NextRelay == NextWith(
        { Plain("POWER_ON"), Plain("POWER_OFF"), Plain("STOP") },
        QueueElapsed)

SpecRelay == InitRelay /\ [][NextRelay]_vars

\* --- calls of normalise_days: a str of up to MaxTokens tokens joined by
\* --- "," or "/", an iterable of up to MaxTokens ints and names, None, and
\* --- an object that is neither
DayTokens ==
    { <<"0">>,
      <<"F", "R", "I">>,
      <<"s", "u", "n">>,
      <<"W", "e", "e", "k", "e", "n", "d">>,
      <<"w", "e", "e", "k", "d", "a", "y", "s">>,
      <<"F", "r", "i", "-", "M", "o", "n">>,
      <<"s", "a", "t", " ", "-", " ", "t", "u", "e">>,
      <<"7">>,
      <<"n", "o", "o", "n">>,
      <<>> }

DayItems ==
    { IntItem(0), IntItem(6), IntItem(7), IntItem(-1),
      StrItem(<<"m", "o", "n">>), StrItem(<<" ", "S", "U", "N", " ">>), StrItem(<<"n", "o", "o", "n">>) }

RECURSIVE JoinTokens(_, _)
JoinTokens(tokens, sep) ==
    IF Len(tokens) = 1 THEN tokens[1]
    ELSE tokens[1] \o <<sep>> \o JoinTokens(Tail(tokens), sep)

DayArgs ==
    {NoneArg, IntArg, ListArg(<<>>)}
    \cup { StrArg(JoinTokens(ts, sep)) :
             ts \in UNION {[1..n -> DayTokens] : n \in 1..MaxTokens},
             sep \in {",", "/"} }
    \cup { ListArg(items) :
             items \in UNION {[1..n -> DayItems] : n \in 1..MaxTokens} }

Idle(S) ==
    /\ clock = StartClock
    /\ pc = "call"
    /\ playlists = TwoPlaylists
    /\ schedules = S
    /\ commands = <<>>
    /\ state = [status |-> "idle", current_track_id |-> NONE,
                playlist_id |-> NONE, volume |-> VolumeDefault,
                session_end_at |-> NONE, power_on |-> FALSE,
                heartbeat_at |-> StartClock]
    /\ env = [vlc_backend |-> "dummy", vlc |-> FALSE, cvlc |-> FALSE,
              bootstrap_schedules |-> <<>>]
    /\ player = NewPlayer("dummy")
    /\ relay = MockRelay
    /\ current_track_ids = <<>>
    /\ trace = <<>>
    /\ starts = [s \in DOMAIN schedules |-> [minute |-> NONE, n |-> 0]]
    /\ drained = <<>>

InitDays ==
    /\ Idle(<<>>)
    /\ cvlc = [main |-> "none"]
    /\ boot = "none"
    /\ call \in { [fn |-> "normalise_days", arg |-> d, done |-> FALSE,
                   ret |-> Returned(<<>>)] : d \in DayArgs }

CallNormaliseDays ==
    /\ call.fn = "normalise_days"
    /\ ~call.done
    /\ call' = [call EXCEPT !.done = TRUE, !.ret = NormaliseDays(call.arg)]
    /\ UNCHANGED <<clock, pc, playlists, schedules, commands, state, player,
                   relay, current_track_ids, trace, starts, drained, env, cvlc, boot>>

NextDays == CallNormaliseDays

SpecDays == InitDays /\ [][NextDays]_vars

\* --- calls of next_occurrence: schedules with well-formed and malformed
\* --- days and start_time, reference times every RefStep seconds around
\* --- Monday 09:00, Monday 09:30 and the end of Sunday
ScheduleDays ==
    { NoneArg, StrArg(<<>>),
      StrArg(<<"0", ",", "1", ",", "2", ",", "3", ",", "4", ",", "5", ",", "6">>),
      StrArg(<<"1", ",", "3">>), StrArg(<<"0", ",", "2">>),
      StrArg(<<"6">>), StrArg(<<",">>), StrArg(<<"7">>), StrArg(<<"x">>),
      StrArg(<<" ", "2", " ", ",", " ", "2">>) }

ScheduleTimes ==
    { NoneArg, StrArg(<<"0", "9", ":", "3", "0">>),
      StrArg(<<"0", "8", ":", "1", "5">>),
      StrArg(<<"1", "0", ":", "0", "0">>),
      StrArg(<<"2", "3", ":", "5", "9">>),
      StrArg(<<"2", "5", ":", "0", "0">>),
      StrArg(<<"0", "9", ":", "6", "0">>), StrArg(<<"9">>),
      StrArg(<<"a", "b", ":", "c", "d">>),
      StrArg(<<"9", ":", "3", "0", ":", "0", "0">>),
      StrArg(<<" ", "9", ":", " ", "5">>),
      StrArg(<<"-", "1", ":", "3", "0">>) }

RefStep == 20

InitNext ==
    /\ Idle(<<>>)
    /\ cvlc = [main |-> "none"]
    /\ boot = "none"
    /\ call \in { [fn |-> "next_occurrence",
                   arg |-> [days |-> d, start_time |-> t], ref |-> r,
                   done |-> FALSE, ret |-> Returned(NONE)] :
                  d \in ScheduleDays, t \in ScheduleTimes, r \in { base + k * RefStep : base \in {9 * 3600, 9 * 3600 + 29 * 60 + 40, 7 * 86400 - 80}, k \in 0..MaxRefs } }

CallNextOccurrence ==
    /\ call.fn = "next_occurrence"
    /\ ~call.done
    /\ call' = [call EXCEPT !.done = TRUE,
                            !.ret = NextOccurrence(call.arg, call.ref)]
    /\ UNCHANGED <<clock, pc, playlists, schedules, commands, state, player,
                   relay, current_track_ids, trace, starts, drained, env, cvlc, boot>>

NextNext == CallNextOccurrence

SpecNext == InitNext /\ [][NextNext]_vars

\* --- start and restart of the daemon with a bootstrap schedule list of up
\* --- to MaxDefs definitions, on a database that holds the schedule Recess
Definition(mapping, name, playlist, time, minutes, days, enabled) ==
    [mapping |-> mapping, name |-> name, playlist |-> playlist, time |-> time,
     minutes |-> minutes, days |-> days, enabled |-> enabled]

Bell ==
    Definition(TRUE, <<"B", "e", "l", "l">>, NameRef(<<"M", "i", "x">>), <<"0", "9", ":", "3", "0">>, 1,
               StrArg(<<"M", "o", "n", "-", "F", "r", "i">>), "absent")

BellWeekend ==
    Definition(TRUE, <<" ", "B", "e", "l", "l", " ">>, IdRef(2), <<"0", "8", ":", "1", "5">>, 25,
               StrArg(<<"W", "e", "e", "k", "e", "n", "d">>), "false")

RecessMoved ==
    Definition(TRUE, <<"R", "e", "c", "e", "s", "s">>, NameRef(<<"2">>), <<"0", "9", ":", "3", "1">>, BAD,
               StrArg(<<"n", "o", "o", "n">>), "true")

Unresolved ==
    { [RecessMoved EXCEPT !.mapping = FALSE],
      [RecessMoved EXCEPT !.name = <<" ">>],
      [RecessMoved EXCEPT !.playlist = [type |-> "none", n |-> 0, s |-> <<>>]],
      [RecessMoved EXCEPT !.playlist = NameRef(<<"N", "o", "p", "e">>)],
      [RecessMoved EXCEPT !.playlist = IdRef(9)],
      [RecessMoved EXCEPT !.time = <<>>] }

InitBootstrap ==
    /\ clock = StartClock
    /\ pc = "init"
    /\ playlists = TwoPlaylists
    /\ schedules = <<[Recess EXCEPT !.session_minutes = 1]>>
    /\ commands = <<>>
    /\ state = [status |-> "idle", current_track_id |-> NONE,
                playlist_id |-> NONE, volume |-> VolumeDefault,
                session_end_at |-> NONE, power_on |-> FALSE,
                heartbeat_at |-> StartClock]
    /\ env \in [vlc_backend : {"cvlc"}, vlc : {FALSE}, cvlc : {TRUE},
                 bootstrap_schedules :
                     UNION {[1..n -> {Bell, BellWeekend, RecessMoved} \cup Unresolved] : n \in 0..MaxDefs}]
    /\ player = NewPlayer("none")
    /\ relay = MockRelay
    /\ current_track_ids = <<>>
    /\ trace = <<>>
    /\ starts = [s \in DOMAIN schedules |-> [minute |-> NONE, n |-> 0]]
    /\ drained = <<>>
    /\ call = [fn |-> "none"]
    /\ cvlc = [main |-> "none"]
    /\ boot = "none"

NextBootstrap ==
    \/ StartDaemon
    \/ Tick
    \/ AdvanceClock(1)
    \/ ProcessExit
    \/ Restart

SpecBootstrap == InitBootstrap /\ [][NextBootstrap]_vars

\* --- CVLCPlayer call by call: the tick thread runs the calls the daemon
\* --- makes (_start_tracks, stop, set_volume, skip, update) one statement at
\* --- a time, the writer threads run in between, a subprocess may exit at
\* --- any time
\* cvlc.process is self._process (0: None, h: the handle of procs[h]),
\* cvlc.thread is self._thread (0: None, w: writers[w]), cvlc.queue is
\* self._commands.  procs[h]: the subprocess, its stdin pipe, the data
\* buffered in the pipe's writer and the lines the subprocess has read.
\* A token carries the subprocess that was the latest when it was put (s),
\* its number in the order of the puts (n) and whether self._process was a
\* running subprocess at the put (live).  sent is the record of all puts.
MaxSpawns == 2
MaxCalls == 2

Token(c, cmd) ==
    [cmd |-> cmd, s |-> Len(c.procs), n |-> Len(c.sent) + 1,
     live |-> c.process # 0 /\ c.procs[c.process].alive]

Put(c, cmd) ==
    [c EXCEPT !.queue = Append(@, Token(c, cmd)),
              !.sent = Append(@, Token(c, cmd))]

NewCvlc ==
    [process |-> 0, procs |-> <<>>, queue |-> <<>>, thread |-> 0,
     writers |-> <<>>, playing |-> FALSE, files |-> 0, index |-> -1,
     main |-> "idle", then |-> "idle", calls |-> 0, sent |-> <<>>]

IsAlive(c, w) == w # 0 /\ c.writers[w].pc \notin {"done", "died"}

InitWriter ==
    /\ Idle(<<>>)
    /\ call = [fn |-> "none"]
    /\ cvlc = NewCvlc
    /\ boot = "none"

FrameWriter ==
    UNCHANGED <<clock, pc, playlists, schedules, commands, state, player,
                relay, current_track_ids, trace, starts, drained, env, call, boot>>

\* the tick thread enters a call
Enter == cvlc.main = "idle" /\ cvlc.calls < MaxCalls

\* _start_tracks: load_playlist(files), which begins with stop()
CallStartTracks ==
    /\ Enter
    /\ Len(cvlc.procs) < MaxSpawns
    /\ cvlc' = [cvlc EXCEPT !.calls = @ + 1, !.playing = FALSE,
                            !.main = "stop_quit", !.then = "load"]
    /\ FrameWriter

CallStop ==
    /\ Enter
    /\ cvlc' = [cvlc EXCEPT !.calls = @ + 1, !.playing = FALSE,
                            !.main = "stop_quit", !.then = "stop"]
    /\ FrameWriter

CallSetVolume ==
    /\ Enter
    /\ cvlc' = [(IF cvlc.process # 0 THEN Put(cvlc, "volume") ELSE cvlc)
                   EXCEPT !.calls = @ + 1]
    /\ FrameWriter

CallSkip ==
    /\ Enter
    /\ cvlc' = [(IF cvlc.process # 0
                 THEN [Put(cvlc, "next") EXCEPT
                          !.index = IF cvlc.files # 0
                                    THEN (cvlc.index + 1) % cvlc.files ELSE @]
                 ELSE cvlc)
                   EXCEPT !.calls = @ + 1]
    /\ FrameWriter

CallUpdate ==
    /\ Enter
    /\ cvlc' = [(IF cvlc.process # 0 /\ ~cvlc.procs[cvlc.process].alive
                 THEN [cvlc EXCEPT !.process = 0, !.playing = FALSE, !.index = -1]
                 ELSE cvlc)
                   EXCEPT !.calls = @ + 1]
    /\ FrameWriter

\* _stop_process: if self._process: self._commands.put("quit")
StopProcessQuit ==
    /\ cvlc.main = "stop_quit"
    /\ cvlc' = IF cvlc.process # 0
               THEN [Put(cvlc, "quit") EXCEPT !.main = "stop_communicate"]
               ELSE [cvlc EXCEPT !.main = "stop_thread"]
    /\ FrameWriter

\* communicate(timeout=1) flushes and closes stdin, then waits
StopProcessCommunicate ==
    /\ cvlc.main = "stop_communicate"
    /\ LET h == cvlc.process
       IN  cvlc' = [cvlc EXCEPT
                       !.procs[h] =
                           IF @.stdin = "open" /\ @.alive
                           THEN [@ EXCEPT !.received = @ \o cvlc.procs[h].buffer,
                                          !.buffer = <<>>, !.stdin = "closed"]
                           ELSE [@ EXCEPT !.stdin = "closed"],
                       !.main = "stop_wait"]
    /\ FrameWriter

\* the subprocess has exited, or the timeout has passed and it is killed;
\* self._process = None
StopProcessWait ==
    /\ cvlc.main = "stop_wait"
    /\ cvlc' = [cvlc EXCEPT !.procs[cvlc.process].alive = FALSE,
                            !.process = 0, !.main = "stop_thread"]
    /\ FrameWriter

\* the end of a call of stop(): self._index = -1, and for load_playlist the
\* files and index 0; set_volume of _start_tracks finds no process
AfterStop(c) ==
    IF c.then = "stop"
    THEN [c EXCEPT !.index = -1, !.main = "idle", !.then = "idle"]
    ELSE [c EXCEPT !.files = 2, !.index = 0, !.main = "play_spawn",
                   !.then = "idle"]

\* if self._thread and self._thread.is_alive(): put("__quit__")
StopProcessThread ==
    /\ cvlc.main = "stop_thread"
    /\ cvlc' = IF IsAlive(cvlc, cvlc.thread)
               THEN [Put(cvlc, "__quit__") EXCEPT !.main = "stop_join"]
               ELSE AfterStop([cvlc EXCEPT !.thread = 0])
    /\ FrameWriter

\* join(timeout=0.2) returns when the writer has ended or after the timeout;
\* self._thread = None
StopProcessJoin ==
    /\ cvlc.main = "stop_join"
    /\ cvlc' = AfterStop([cvlc EXCEPT !.thread = 0])
    /\ FrameWriter

\* play(): self._process is None, _spawn: Popen
PlaySpawn ==
    /\ cvlc.main = "play_spawn"
    /\ cvlc' = [cvlc EXCEPT
                   !.procs = Append(@, [alive |-> TRUE, stdin |-> "open",
                                        buffer |-> <<>>, received |-> <<>>]),
                   !.process = Len(cvlc.procs) + 1,
                   !.main = "play_thread"]
    /\ FrameWriter

\* _ensure_thread
PlayEnsureThread ==
    /\ cvlc.main = "play_thread"
    /\ cvlc' = IF IsAlive(cvlc, cvlc.thread)
               THEN [cvlc EXCEPT !.main = "play_volume"]
               ELSE [cvlc EXCEPT
                        !.writers = Append(@, [pc |-> "get", born |-> Len(cvlc.procs),
                                               cmd |-> Token(cvlc, "none")]),
                        !.thread = Len(cvlc.writers) + 1,
                        !.main = "play_volume"]
    /\ FrameWriter

\* _spawn: put(volume)
PlayPutVolume ==
    /\ cvlc.main = "play_volume"
    /\ cvlc' = [Put(cvlc, "volume") EXCEPT !.main = "play_play"]
    /\ FrameWriter

\* play(): if self._process: put("play"); self._playing = True
PlayPutPlay ==
    /\ cvlc.main = "play_play"
    /\ cvlc' = [Put(cvlc, "play") EXCEPT !.playing = TRUE, !.main = "idle"]
    /\ FrameWriter

\* _writer_thread: cmd = self._commands.get(); if cmd == "__quit__": break
WriterGet(w) ==
    /\ w <= Len(cvlc.writers)
    /\ cvlc.writers[w].pc = "get"
    /\ cvlc.queue # <<>>
    /\ cvlc' = [cvlc EXCEPT
                   !.queue = Tail(@),
                   !.writers[w] =
                       [@ EXCEPT !.cmd = Head(cvlc.queue),
                                 !.pc = IF Head(cvlc.queue).cmd = "__quit__"
                                        THEN "done" ELSE "check"]]
    /\ FrameWriter

\* if self._process and self._process.stdin
WriterCheck(w) ==
    /\ w <= Len(cvlc.writers)
    /\ cvlc.writers[w].pc = "check"
    /\ cvlc' = [cvlc EXCEPT !.writers[w].pc =
                                IF cvlc.process # 0 THEN "write" ELSE "get"]
    /\ FrameWriter

\* self._process.stdin.write(cmd + "\n"): self._process is read again; None
\* has no stdin (AttributeError), a closed file raises ValueError; neither
\* is caught and the thread ends
WriterWrite(w) ==
    /\ w <= Len(cvlc.writers)
    /\ cvlc.writers[w].pc = "write"
    /\ LET h == cvlc.process
       IN  cvlc' = IF h = 0 \/ cvlc.procs[h].stdin = "closed"
                   THEN [cvlc EXCEPT !.writers[w].pc = "died"]
                   ELSE [cvlc EXCEPT
                            !.procs[h].buffer = Append(@, cvlc.writers[w].cmd),
                            !.writers[w].pc = "flush"]
    /\ FrameWriter

\* self._process.stdin.flush(): a third read of self._process; the flush of
\* data into the pipe of an exited subprocess raises BrokenPipeError: break
WriterFlush(w) ==
    /\ w <= Len(cvlc.writers)
    /\ cvlc.writers[w].pc = "flush"
    /\ LET h == cvlc.process
       IN  cvlc' = IF h = 0 \/ cvlc.procs[h].stdin = "closed"
                   THEN [cvlc EXCEPT !.writers[w].pc = "died"]
                   ELSE IF cvlc.procs[h].alive
                   THEN [cvlc EXCEPT
                            !.procs[h].received = @ \o cvlc.procs[h].buffer,
                            !.procs[h].buffer = <<>>,
                            !.writers[w].pc = "get"]
                   ELSE IF cvlc.procs[h].buffer # <<>>
                   THEN [cvlc EXCEPT !.writers[w].pc = "done"]
                   ELSE [cvlc EXCEPT !.writers[w].pc = "get"]
    /\ FrameWriter

\* the subprocess ends by itself
SubprocessExit ==
    /\ cvlc.main # "none"
    /\ cvlc.process # 0
    /\ cvlc.procs[cvlc.process].alive
    /\ cvlc' = [cvlc EXCEPT !.procs[cvlc.process].alive = FALSE]
    /\ FrameWriter

NextWriter ==
    \/ CallStartTracks
    \/ CallStop
    \/ CallSetVolume
    \/ CallSkip
    \/ CallUpdate
    \/ StopProcessQuit
    \/ StopProcessCommunicate
    \/ StopProcessWait
    \/ StopProcessThread
    \/ StopProcessJoin
    \/ PlaySpawn
    \/ PlayEnsureThread
    \/ PlayPutVolume
    \/ PlayPutPlay
    \/ \E w \in 1..MaxSpawns : WriterGet(w)
    \/ \E w \in 1..MaxSpawns : WriterCheck(w)
    \/ \E w \in 1..MaxSpawns : WriterWrite(w)
    \/ \E w \in 1..MaxSpawns : WriterFlush(w)
    \/ SubprocessExit

SpecWriter == InitWriter /\ [][NextWriter]_vars

\* --- DummyPlayer on its own: any sequence of calls of its methods, the
\* --- calls made so far are kept in trace
MaxDummyCalls == 4

InitDummy ==
    /\ Idle(<<>>)
    /\ call = [fn |-> "none"]
    /\ cvlc = [main |-> "none"]
    /\ boot = "none"

FrameDummy ==
    UNCHANGED <<clock, pc, playlists, schedules, commands, state, relay,
                current_track_ids, starts, drained, env, call, cvlc, boot>>

DummyLoadPlaylist ==
    /\ pc = "call"
    /\ Len(trace) < MaxDummyCalls
    /\ \E files \in {<<>>, <<1>>, <<1, 2>>} :
           /\ player' = PlayerLoadPlaylist(player, files)
           /\ trace' = Append(trace, Ev("load_playlist", Len(files)))
    /\ FrameDummy

DummyPlay ==
    /\ pc = "call"
    /\ Len(trace) < MaxDummyCalls
    /\ player' = PlayerPlay(player)
    /\ trace' = Append(trace, Ev("play", 0))
    /\ FrameDummy

DummyStop ==
    /\ pc = "call"
    /\ Len(trace) < MaxDummyCalls
    /\ player' = PlayerStop(player)
    /\ trace' = Append(trace, Ev("stop", 0))
    /\ FrameDummy

DummySkip ==
    /\ pc = "call"
    /\ Len(trace) < MaxDummyCalls
    /\ player' = PlayerSkip(player)
    /\ trace' = Append(trace, Ev("skip", 0))
    /\ FrameDummy

DummySetVolume ==
    /\ pc = "call"
    /\ Len(trace) < MaxDummyCalls
    /\ \E volume \in {-5, 30, 150} :
           /\ player' = PlayerSetVolume(player, volume)
           /\ trace' = Append(trace, Ev("set_volume", volume))
    /\ FrameDummy

NextDummy ==
    \/ DummyLoadPlaylist
    \/ DummyPlay
    \/ DummyStop
    \/ DummySkip
    \/ DummySetVolume

SpecDummy == InitDummy /\ [][NextDummy]_vars

\* --- the firing rule of _tick_schedules next to next_occurrence: one enabled
\* --- schedule with a playlist, never fired, whose days and start_time columns
\* --- hold the strings of the call; the tick is at the minute-aligned time ref
StoredStartTimes ==
    (ScheduleTimes \ {NoneArg})
    \cup { StrArg(<<>>), StrArg(<<"0", "8", ":", "0", "0">>),
           StrArg(<<"8", ":", "0", "0">>) }

TickTimes ==
    { d * 86400 + h * 3600 + m * 60 :
        d \in 0..6,
        h \in {0, 8, 9, 10, 23},
        m \in {0, 5, 15, 30, 59} }

InitAgree ==
    /\ Idle(<<>>)
    /\ cvlc = [main |-> "none"]
    /\ boot = "none"
    /\ call \in { [fn |-> "tick_schedules",
                   arg |-> [days |-> d, start_time |-> t], ref |-> r,
                   done |-> FALSE, ret |-> Returned(NONE), fired |-> FALSE] :
                  d \in ScheduleDays \ {NoneArg}, t \in StoredStartTimes,
                  r \in TickTimes }

\* the row of the call, as _tick_schedules reads it
StoredSchedule(arg) ==
    [Recess EXCEPT !.days = StoredDays(arg.days.s),
                   !.start_time = arg.start_time.s]

CallTickAndNextOccurrence ==
    /\ call.fn = "tick_schedules"
    /\ ~call.done
    /\ call' = [call EXCEPT
                   !.done = TRUE,
                   !.fired = ScheduleDue(StoredSchedule(call.arg), call.ref),
                   !.ret = NextOccurrence(call.arg, call.ref)]
    /\ UNCHANGED <<clock, pc, playlists, schedules, commands, state, player,
                   relay, current_track_ids, trace, starts, drained, env, cvlc,
                   boot>>

NextAgree == CallTickAndNextOccurrence

SpecAgree == InitAgree /\ [][NextAgree]_vars

\* ------------------------------------------------------------------ claims
Applied(tr) == SelectSeq(tr, LAMBDA e : e.ev = "apply")

Has(tr, name) == \E k \in 1..Len(tr) : tr[k].ev = name

Pos(tr, name) == CHOOSE k \in 1..Len(tr) : tr[k].ev = name

\* C1: an enabled schedule with a playlist starts at most one session in one
\* wall-clock minute (same date, same HH:MM), at whatever second of the minute
\* its first firing happened.
C1_OneStartPerMinute == \A s \in DOMAIN schedules : starts[s].n <= 1

\* C2: one run of _tick_commands applies every command whose processed_at is
\* absent, once each, in ascending created_at order, and stamps processed_at
\* on each of them, also on those that could not be applied.
C2_DrainsAllInOrder ==
    [][pc = "commands" /\ pc' = "player" =>
         LET P == Pending(commands)
             a == Applied(trace')
         IN  /\ Len(a) = Cardinality(P)
             /\ {a[k].arg : k \in 1..Len(a)} = P
             /\ \A j, k \in 1..Len(a) :
                    j < k => commands[a[j].arg].created_at
                                 <= commands[a[k].arg].created_at
             /\ \A j, k \in 1..Len(a) :
                    /\ j < k
                    /\ commands[a[j].arg].created_at = commands[a[k].arg].created_at
                    => a[j].arg < a[k].arg
             /\ \A i \in P : commands'[i].processed_at = clock
             /\ Pending(commands') = {}]_vars

C2_Witness ==
    /\ pc = "player"
    /\ Len(drained) = 2
    /\ commands[drained[1]].created_at < commands[drained[2]].created_at
    /\ commands[drained[1]].type = "REWIND"
    /\ commands[drained[2]].type = "PLAY"
    /\ commands[drained[2]].playlist_id = 9
    /\ \A k \in 1..2 : commands[drained[k]].processed_at = clock

\* C3: a command is applied exactly once: the tick that finds it pending
\* applies it once, no later tick applies a command whose processed_at is
\* set, processed_at (and the rest of the row) never changes once set, and
\* no row is ever deleted.
C3_AppliedExactlyOnce ==
    [][/\ Len(commands') >= Len(commands)
       /\ \A i \in 1..Len(commands) :
              /\ [commands'[i] EXCEPT !.processed_at = NONE]
                     = [commands[i] EXCEPT !.processed_at = NONE]
              /\ commands[i].processed_at # NONE => commands'[i] = commands[i]
              /\ pc = "commands" /\ pc' = "player" =>
                     Cardinality({k \in 1..Len(trace') : trace'[k] = Ev("apply", i)})
                         = IF commands[i].processed_at = NONE THEN 1 ELSE 0]_vars

C3_Witness ==
    /\ pc = "player"
    /\ \E i, j \in 1..Len(commands) :
           /\ commands[i].processed_at # NONE
           /\ commands[i].processed_at < clock
           /\ drained = <<j>>
           /\ commands[j].processed_at = clock

\* C4: when the only command a tick drains is PLAY with the playlist_id of a
\* playlist that has a track, then after the drain, and after the tick unless
\* the backend's subprocess ended during it, Session State is playing that
\* playlist at its first track, session_end_at is the start time plus
\* max(30, minutes*60) seconds, and the command has processed_at set.
SubprocessEnded == player.backend = "cvlc" /\ player.process # "alive"

C4_PlayStartsSession ==
    /\ pc \in {"player", "timeout", "heartbeat", "schedules"}
    /\ Len(drained) = 1
    /\ commands[drained[1]].type = "PLAY"
    /\ commands[drained[1]].playlist_id \in DOMAIN playlists
    /\ Len(playlists[commands[drained[1]].playlist_id]) >= 1
    /\ (pc = "player" \/ ~SubprocessEnded)
    => LET c == commands[drained[1]]
           minutes == IF c.minutes = NONE THEN 15 ELSE c.minutes
           seconds == IF minutes * 60 < 30 THEN 30 ELSE minutes * 60
       IN  /\ c.processed_at # NONE
           /\ state.status = "playing"
           /\ state.playlist_id = c.playlist_id
           /\ state.current_track_id = playlists[c.playlist_id][1]
           /\ state.session_end_at = c.processed_at + seconds

C4_Witness ==
    /\ pc = "schedules"
    /\ Len(drained) = 1
    /\ commands[drained[1]].type = "PLAY"
    /\ commands[drained[1]].playlist_id = 1
    /\ commands[drained[1]].minutes = 0
    /\ state.status = "playing"
    /\ state.current_track_id = 1
    /\ state.session_end_at = commands[drained[1]].processed_at + 30

\* C5: a PLAY command without playlist_id starts a session of the only
\* playlist when exactly one playlist exists; with no playlist or with two or
\* more it starts nothing and leaves Session State, the player and the relay
\* as they were; in both cases the command is marked processed.
C5_PlayWithoutPlaylistId ==
    [][/\ pc = "commands" /\ pc' = "player"
       /\ Len(PendingCommands) = 1
       /\ commands[PendingCommands[1]].type = "PLAY"
       /\ commands[PendingCommands[1]].playlist_id = NONE
       => /\ commands'[PendingCommands[1]].processed_at = clock
          /\ IF Cardinality(DOMAIN playlists) = 1
             THEN /\ state'.status = "playing"
                  /\ state'.playlist_id \in DOMAIN playlists
                  /\ Has(trace', "session_started")
             ELSE /\ state' = state
                  /\ player' = player
                  /\ relay' = relay
                  /\ current_track_ids' = current_track_ids
                  /\ ~Has(trace', "session_started")]_vars

C5_Witness ==
    /\ pc = "player"
    /\ Len(drained) = 1
    /\ commands[drained[1]].type = "PLAY"
    /\ commands[drained[1]].playlist_id = NONE
    /\ commands[drained[1]].processed_at = clock
    /\ Cardinality(DOMAIN playlists) = 2
    /\ state.status = "idle"
    /\ ~Has(trace, "session_started")

\* C6: the schedule step of a tick at a minute equal to the start_time of an
\* enabled schedule, on a weekday of its day set, whose playlist has a track
\* and which has not fired in that minute, leaves Session State playing that
\* playlist with session_end_at = firing time + session_minutes*60 seconds
\* (Tuesday 09:30 and 15 minutes give 09:45); a schedule that is disabled or
\* whose weekday or minute does not match starts no session.
C6_ScheduleFires ==
    [][pc = "schedules" /\ pc' = "commands" =>
         \A s \in DOMAIN schedules :
             LET sc == schedules[s]
                 matches == /\ sc.enabled
                            /\ \E k \in 1..Len(sc.days) : sc.days[k] = WeekdayStr(clock)
                            /\ sc.start_time = MinuteKey(clock)
                 fresh == \/ sc.last_fired_at = NONE
                          \/ MinuteOf(sc.last_fired_at) # MinuteOf(clock)
             IN  /\ /\ matches /\ fresh
                    /\ sc.playlist_id \in DOMAIN playlists
                    /\ Len(playlists[sc.playlist_id]) >= 1
                    => /\ state'.status = "playing"
                       /\ state'.playlist_id = sc.playlist_id
                       /\ state'.session_end_at = clock + sc.session_minutes * 60
                       /\ \E k \in 1..Len(trace') : trace'[k] = Ev("session_started", s)
                       /\ schedules'[s].last_fired_at = clock
                 /\ ~matches
                    => /\ \A k \in 1..Len(trace') : trace'[k] # Ev("session_started", s)
                       /\ starts'[s] = starts[s]
                       /\ schedules'[s] = sc]_vars

C6_Witness ==
    /\ pc = "commands"
    /\ clock = 86400 + 9 * 3600 + 30 * 60
    /\ schedules[1].session_minutes = 15
    /\ trace[Len(trace)] = Ev("session_started", 1)
    /\ state.status = "playing"
    /\ state.session_end_at = 86400 + 9 * 3600 + 45 * 60

\* C7: when Session State is playing and the player backend reports
\* exhaustion (index -1, not playing), the poll step of the tick ends the
\* session: status idle, relay off, playlist_id, current_track_id and
\* session_end_at cleared, whatever session_end_at was.
Exhausted(p) ==
    /\ PlayerCurrentIndex(PlayerUpdate(p)) = -1
    /\ ~PlayerIsPlaying(PlayerUpdate(p))

C7_ExhaustionEndsSession ==
    [][/\ pc = "player" /\ pc' = "timeout"
       /\ state.status = "playing"
       /\ Exhausted(player)
       => /\ state'.status = "idle"
          /\ ~IsPowerOn(relay')
          /\ ~state'.power_on
          /\ state'.playlist_id = NONE
          /\ state'.current_track_id = NONE
          /\ state'.session_end_at = NONE
          /\ ~PlayerIsPlaying(player')]_vars

C7_Witness ==
    /\ pc = "timeout"
    /\ state.status = "idle"
    /\ ~IsPowerOn(relay)
    /\ Has(trace, "commit_idle")
    /\ trace[Pos(trace, "commit_idle")].arg > clock

\* C8: the persisted volume is always within 0..100, and after a drained
\* SET_VOLUME command the persisted volume equals the player's volume.
C8_VolumeClamped ==
    /\ state.volume \in 0..100
    /\ /\ pc = "player"
       /\ drained # <<>>
       /\ commands[drained[Len(drained)]].type = "SET_VOLUME"
       => state.volume = player.volume

\* C9: a PREVIEW command for an existing track drained while a session is
\* playing first ends the session (player stopped, relay powered off if it was
\* on, state committed idle) and then starts the preview (relay powered on,
\* player started, state committed playing with no playlist_id and the
\* previewed track as current_track_id), in that order.
Once(tr, name) == Cardinality({k \in 1..Len(tr) : tr[k].ev = name}) = 1

C9_PreviewInterrupts ==
    [][/\ pc = "commands" /\ pc' = "player"
       /\ Len(PendingCommands) = 1
       /\ commands[PendingCommands[1]].type = "PREVIEW"
       /\ commands[PendingCommands[1]].track_id \in TrackIds
       /\ FileExists(commands[PendingCommands[1]].track_id)
       /\ state.status = "playing"
       => LET tr == trace'
          IN  /\ \A n \in {"player_stop", "commit_idle", "relay_on",
                           "player_play", "commit_playing"} : Once(tr, n)
              /\ Pos(tr, "player_stop") < Pos(tr, "commit_idle")
              /\ Pos(tr, "commit_idle") < Pos(tr, "relay_on")
              /\ Pos(tr, "relay_on") < Pos(tr, "player_play")
              /\ Pos(tr, "player_play") < Pos(tr, "commit_playing")
              /\ IF IsPowerOn(relay)
                 THEN /\ Once(tr, "relay_off")
                      /\ Pos(tr, "player_stop") < Pos(tr, "relay_off")
                      /\ Pos(tr, "relay_off") < Pos(tr, "commit_idle")
                 ELSE ~Has(tr, "relay_off")
              /\ state'.status = "playing"
              /\ state'.playlist_id = NONE
              /\ state'.current_track_id = commands[PendingCommands[1]].track_id
              /\ IsPowerOn(relay')
              /\ PlayerIsPlaying(player')]_vars

C9_Witness ==
    /\ pc = "player"
    /\ Len(drained) = 1
    /\ commands[drained[1]].type = "PREVIEW"
    /\ Has(trace, "relay_off")
    /\ Has(trace, "relay_on")
    /\ Pos(trace, "relay_off") < Pos(trace, "relay_on")
    /\ Pos(trace, "commit_idle") < Pos(trace, "commit_playing")
    /\ state.status = "playing"
    /\ state.playlist_id = NONE
    /\ state.current_track_id = commands[drained[1]].track_id

\* C10: after every completed tick, status = idle implies that session_end_at,
\* playlist_id and current_track_id are absent in the persisted Session State.
C10_IdleHasNoSession ==
    pc = "schedules" /\ state.status = "idle"
    => /\ state.session_end_at = NONE
       /\ state.playlist_id = NONE
       /\ state.current_track_id = NONE

C10_Witness ==
    /\ pc = "schedules"
    /\ state.heartbeat_at = clock
    /\ state.status = "idle"
    /\ player.files # <<>>
    /\ \E i \in 1..Len(commands) : commands[i].type = "SKIP"

\* C11: after every completed tick, status = playing implies that
\* session_end_at is set, the player backend has a playlist loaded and is
\* playing it (as far as its subprocess has not ended since the tick's poll),
\* and current_track_id is the entry of the daemon's current_track_ids at
\* the backend's current index.
C11_PlayingHasSession ==
    pc = "schedules" /\ state.status = "playing"
    => /\ state.session_end_at # NONE
       /\ player.files # <<>>
       /\ Len(current_track_ids) = Len(player.files)
       /\ player.playing
       /\ ~SubprocessEnded => PlayerIsPlaying(player)
       /\ PlayerCurrentIndex(player) \in 0..(Len(current_track_ids) - 1)
       /\ state.current_track_id
              = current_track_ids[PlayerCurrentIndex(player) + 1]

\* C12: no session outlives its end time across a tick: after the timeout
\* step of a tick, and after the completed tick, status = playing implies
\* that the tick's clock was strictly before session_end_at; a session that
\* the timeout step ended is idle with the player stopped and the relay off.
C12_NoSessionPastEnd ==
    /\ pc = "heartbeat" /\ state.status = "playing"
       => clock < state.session_end_at
    /\ pc = "schedules" /\ state.status = "playing"
       => state.heartbeat_at < state.session_end_at
    /\ pc = "heartbeat" /\ Has(trace, "commit_idle")
       => /\ trace[Pos(trace, "commit_idle")].arg <= clock
          /\ state.status = "idle"
          /\ state.session_end_at = NONE
          /\ ~PlayerIsPlaying(player)
          /\ ~IsPowerOn(relay)

C12_Witness ==
    /\ pc = "heartbeat"
    /\ Has(trace, "commit_idle")
    /\ trace[Pos(trace, "commit_idle")].arg = clock
    /\ state.status = "idle"
    /\ ~IsPowerOn(relay)

C14_PowerCommandFrame ==
    [][/\ pc = "commands" /\ pc' = "player"
       /\ Len(PendingCommands) = 1
       /\ commands[PendingCommands[1]].type \in {"POWER_ON", "POWER_OFF"}
       => LET on == commands[PendingCommands[1]].type = "POWER_ON"
          IN  /\ IsPowerOn(relay') = on
              /\ state'.power_on = on
              /\ state' = [state EXCEPT !.power_on = on]
              /\ player' = player
              /\ current_track_ids' = current_track_ids
              /\ commands'[PendingCommands[1]].processed_at = clock]_vars

C14_Witness ==
    /\ pc = "player"
    /\ Len(drained) = 1
    /\ commands[drained[1]].type = "POWER_OFF"
    /\ state.status = "playing"
    /\ PlayerIsPlaying(player)
    /\ ~IsPowerOn(relay)
    /\ ~state.power_on
    /\ relay.enabled

\* C15: after every completed tick that leaves no command pending, the
\* persisted power_on equals the relay controller's is_power_on.
C15_PowerOnMirrorsRelay ==
    [][pc = "heartbeat" /\ pc' = "schedules" /\ Pending(commands') = {}
       => state'.power_on = IsPowerOn(relay')]_vars

\* C16: a command whose payload does not match the shape of its type
\* degrades to the defaults or to skipping the action: the command step
\* completes, and the command and the commands after it in the queue are
\* marked processed.
C16_MalformedDegrades ==
    [][pc = "commands" /\ pc' # "commands"
       => /\ pc' = "player"
          /\ Pending(commands') = {}]_vars

\* C17: an error raised inside a tick is fatal to that tick only:
\* run_forever does not terminate on it.
C17_LoopSurvivesErrors == pc # "crashed"

\* C18: when the daemon has crashed inside a tick, the durable store holds no
\* command whose processed_at is absent while a write of its handler to
\* Session State has been committed (a restart would apply it again).
EffectPersisted(i) ==
    \E k \in 1..Len(trace) :
        /\ trace[k] = Ev("apply", i)
        /\ \E j \in (k + 1)..Len(trace) :
               trace[j].ev \in {"commit_playing", "commit_idle"}

C18_AtomicTick ==
    pc = "crashed"
    => \A i \in 1..Len(commands) :
           commands[i].processed_at = NONE => ~EffectPersisted(i)

\* C19: on an external stop signal the loop finishes the tick in progress
\* (all five steps, the heartbeat last) before it exits, and then calls the
\* player's stop() followed by the relay's cleanup(), each exactly once.
C19_CooperativeShutdown ==
    [][pc # "stopped" /\ pc' = "stopped"
       => /\ pc = "schedules"
          /\ trace' = <<Ev("player_stop", 0), Ev("relay_cleanup", 0)>>]_vars

\* C20: make_player("auto") never raises: it returns the native VLC backend
\* when that can be constructed, else the CVLC backend when that can be
\* constructed, else the DummyPlayer, whose construction always succeeds.
C20_AutoFallsBack ==
    [][pc = "init" /\ pc' # "init" /\ Lower(env.vlc_backend) = "auto"
       => /\ pc' # "crashed"
          /\ player'.backend = IF env.vlc THEN "vlc"
                               ELSE IF env.cvlc THEN "cvlc"
                               ELSE "dummy"]_vars

C20_Witness ==
    /\ pc = "schedules"
    /\ env.vlc_backend = "auto"
    /\ ~env.vlc
    /\ ~env.cvlc
    /\ player.backend = "dummy"
    /\ state.heartbeat_at = clock
    /\ state.status = "playing"

\* C21: for every configured backend selection (auto, vlc, cvlc, dummy),
\* whatever backends can be constructed on the machine, make_player returns a
\* backend and the construction of the daemon succeeds.
C21_ConstructionSucceeds ==
    [][/\ pc = "init" /\ pc' # "init"
       /\ Lower(env.vlc_backend) \in {"auto", "vlc", "cvlc", "dummy"}
       => /\ pc' \in {"schedules", "vlc"}
          /\ player'.backend \in {"vlc", "cvlc", "dummy"}]_vars

\* C22: on either backend, with a playlist of n files loaded and the cursor
\* at i, a drained SKIP moves the cursor to i + 1 when i + 1 < n; when there
\* is no next file (i = n - 1) the skip behaves as stop(): afterwards the
\* backend is not playing and its current index is -1.
C22_SkipAdvancesOrStops ==
    [][/\ pc = "commands" /\ pc' = "player"
       /\ Len(PendingCommands) = 1
       /\ commands[PendingCommands[1]].type = "SKIP"
       /\ player.files # <<>>
       /\ PlayerCurrentIndex(player) \in 0..(Len(player.files) - 1)
       => IF PlayerCurrentIndex(player) + 1 < Len(player.files)
          THEN PlayerCurrentIndex(player') = PlayerCurrentIndex(player) + 1
          ELSE /\ ~PlayerIsPlaying(player')
               /\ ~player'.playing
               /\ PlayerCurrentIndex(player') = -1]_vars

\* C23: in both polarities, with and without the GPIO hardware: is_power_on
\* is false before any call and after every step it is true exactly when the
\* last call of the step was power_on() (unchanged when the step called
\* neither); with hardware the level written on the pin is high exactly when
\* (logical on) = active_high, without hardware nothing is written on the pin
\* and the logical state follows the same calls.
RelayCalls(tr) == SelectSeq(tr, LAMBDA e : e.ev \in {"relay_on", "relay_off"})

C23_RelayFollowsLastCall ==
    /\ ~IsPowerOn(relay)
    /\ [][/\ pc' = pc => relay' = relay
          /\ pc' # pc =>
               LET calls == RelayCalls(trace')
               IN  IF calls = <<>>
                   THEN relay' = relay
                   ELSE IsPowerOn(relay') = (calls[Len(calls)].ev = "relay_on")
          /\ relay'.enabled =>
               (relay'.pin = "high") = (IsPowerOn(relay') = relay'.active_high)
          /\ ~relay'.enabled => relay'.pin = "none"]_vars

C23_Witness ==
    /\ pc = "player"
    /\ Len(drained) = 2
    /\ commands[drained[1]].type = "POWER_OFF"
    /\ commands[drained[2]].type = "POWER_ON"
    /\ relay.enabled
    /\ ~relay.active_high
    /\ relay.pin = "low"
    /\ IsPowerOn(relay)

\* C24: for every day expression that normalise_days accepts (numeric tokens,
\* names and abbreviations in any case, weekday / weekend aliases, ranges,
\* also ranges that wrap across the week, iterables of ints and names) the
\* result is a strictly ascending, duplicate-free sequence of values within
\* 0..6; "Fri-Mon" gives 0,4,5,6 and [0, 6, 0] gives 0,6.
DayValue(piece) ==
    IF Len(piece) = 1 /\ \E k \in 1..10 : Digits[k] = piece[1]
    THEN (CHOOSE k \in 1..10 : Digits[k] = piece[1]) - 1
    ELSE -1

DayValues(text) ==
    IF text = <<>> THEN <<>>
    ELSE [i \in 1..Len(Split(text, ",")) |-> DayValue(Split(text, ",")[i])]

C24_DaysCanonical ==
    call.fn = "normalise_days" /\ call.done /\ ~call.ret.raised
    => LET v == DayValues(call.ret.value)
       IN  /\ \A i \in 1..Len(v) : v[i] \in 0..6
           /\ \A i, j \in 1..Len(v) : i < j => v[i] < v[j]
           /\ call.arg = StrArg(<<"F", "r", "i", "-", "M", "o", "n">>) => v = <<0, 4, 5, 6>>
           /\ call.arg = ListArg(<<IntItem(0), IntItem(6), IntItem(0)>>)
              => v = <<0, 6>>

C24_Witness ==
    /\ call.fn = "normalise_days"
    /\ call.done
    /\ call.arg = StrArg(<<"F", "r", "i", "-", "M", "o", "n", "/", "s", "u", "n">>)
    /\ call.ret = Returned(<<"0", ",", "4", ",", "5", ",", "6">>)

\* C25: normalise_days returns the full week 0,1,2,3,4,5,6 for absent input
\* and for every empty input: None, the empty string, a string of separators
\* and whitespace only, an empty list.
EmptyDays(arg) ==
    \/ arg.type = "none"
    \/ arg.type = "str"
       /\ \A i \in 1..Len(arg.s) : arg.s[i] \in Whitespace \cup {",", "/"}
    \/ arg.type = "list" /\ arg.items = <<>>

C25_EmptyIsFullWeek ==
    call.fn = "normalise_days" /\ call.done /\ EmptyDays(call.arg)
    => /\ ~call.ret.raised
       /\ DayValues(call.ret.value) = <<0, 1, 2, 3, 4, 5, 6>>

\* C26: for every schedule and every reference time, also one with non-zero
\* seconds, next_occurrence never returns a timestamp strictly before the
\* reference time; for a schedule active every day it returns today at the
\* start time if that time has not yet passed, otherwise tomorrow at the
\* start time.
EveryDay == StrArg(<<"0", ",", "1", ",", "2", ",", "3", ",", "4", ",", "5", ",", "6">>)

HHMM(st) ==
    /\ st.type = "str"
    /\ Len(st.s) = 5
    /\ st.s[3] = ":"
    /\ \A i \in {1, 2, 4, 5} : DayValue(<<st.s[i]>>) >= 0
    /\ 10 * DayValue(<<st.s[1]>>) + DayValue(<<st.s[2]>>) <= 23
    /\ 10 * DayValue(<<st.s[4]>>) + DayValue(<<st.s[5]>>) <= 59

StartSeconds(st) ==
    (10 * DayValue(<<st.s[1]>>) + DayValue(<<st.s[2]>>)) * 3600
        + (10 * DayValue(<<st.s[4]>>) + DayValue(<<st.s[5]>>)) * 60

Today(t) == t - (t % 86400)

C26_NeverBeforeReference ==
    call.fn = "next_occurrence" /\ call.done /\ ~call.ret.raised
        /\ call.ret.value # NONE
    => /\ call.ret.value >= call.ref
       /\ call.arg.days = EveryDay /\ HHMM(call.arg.start_time)
          => LET start == Today(call.ref) + StartSeconds(call.arg.start_time)
             IN  call.ret.value = IF start >= call.ref THEN start
                                  ELSE start + 86400

\* C26 as amended: the timestamp returned is never before the reference time
\* rounded down to the minute; for a schedule active every day it is today at
\* the start time if that is not before the minute of the reference time,
\* otherwise tomorrow at the start time.
C26_NeverBeforeReferenceMinute ==
    call.fn = "next_occurrence" /\ call.done /\ ~call.ret.raised
        /\ call.ret.value # NONE
    => LET minute == call.ref - (call.ref % 60)
       IN  /\ call.ret.value >= minute
           /\ call.arg.days = EveryDay /\ HHMM(call.arg.start_time)
              => LET start == Today(call.ref)
                                  + StartSeconds(call.arg.start_time)
                 IN  call.ret.value = IF start >= minute THEN start
                                      ELSE start + 86400

C26_Witness ==
    /\ call.fn = "next_occurrence"
    /\ call.done
    /\ call.arg.days = EveryDay
    /\ call.arg.start_time = StrArg(<<"0", "9", ":", "3", "0">>)
    /\ call.ref = 9 * 3600 + 30 * 60 + 20
    /\ call.ret = Returned(9 * 3600 + 30 * 60)

\* C27: next_occurrence returns None, without raising, whenever the day set
\* of the schedule is empty or its start_time is malformed (not two integers
\* separated by ':', or an hour or minute out of range such as "25:00"); for
\* a non-empty day set and a well-formed start_time it returns a timestamp.
EmptyDaySet(d) ==
    d.type = "str" /\ \A i \in 1..Len(d.s) : d.s[i] \in Whitespace \cup {","}

ValidDaySet(d) ==
    d.type = "str" /\ ~EmptyDaySet(d) /\ ~HasRaised(ParseDayString(d))

WellFormedTime(st) ==
    /\ st.type = "str"
    /\ Len(SplitOnce(st.s, ":")) = 2
    /\ IntOf(SplitOnce(st.s, ":")[1]) \in 0..23
    /\ IntOf(SplitOnce(st.s, ":")[2]) \in 0..59

MalformedTime(st) == st.type = "str" /\ st.s # <<>> /\ ~WellFormedTime(st)

C27_AbsentOnEmptyOrMalformed ==
    call.fn = "next_occurrence" /\ call.done
    => /\ \/ EmptyDaySet(call.arg.days)
          \/ ValidDaySet(call.arg.days) /\ MalformedTime(call.arg.start_time)
          => ~call.ret.raised /\ call.ret.value = NONE
       /\ ValidDaySet(call.arg.days) /\ WellFormedTime(call.arg.start_time)
          => ~call.ret.raised /\ call.ret.value # NONE

\* C28: the construction of the daemon upserts the bootstrap definitions by
\* name: a definition whose name a schedule has overwrites that schedule's
\* playlist, days, start time, minutes and enabled flag and adds no row; a
\* definition of a new name creates exactly one row; every other row, and
\* every name and last_fired_at, stay as they were; a later start with the
\* same list leaves the Schedule table unchanged.
DaemonConstructed ==
    /\ pc \in {"init", "schedules"}
    /\ pc' = "schedules"
    /\ clock' = clock
    /\ player' = NewPlayer("cvlc")

UpsertName(d) == IF d = RecessMoved THEN <<"R", "e", "c", "e", "s", "s">> ELSE <<"B", "e", "l", "l">>

Upserted(d) ==
    IF d = Bell
    THEN [playlist_id |-> 1, days |-> <<"0", "1", "2", "3", "4">>,
          start_time |-> <<"0", "9", ":", "3", "0">>, session_minutes |-> 1,
          enabled |-> TRUE]
    ELSE IF d = BellWeekend
    THEN [playlist_id |-> 2, days |-> <<"5", "6">>,
          start_time |-> <<"0", "8", ":", "1", "5">>, session_minutes |-> 25,
          enabled |-> FALSE]
    ELSE [playlist_id |-> 2, days |-> <<"0", "1", "2", "3", "4", "5", "6">>,
          start_time |-> <<"0", "9", ":", "3", "1">>, session_minutes |-> 15,
          enabled |-> TRUE]

Fields(row) ==
    [playlist_id |-> row.playlist_id, days |-> row.days,
     start_time |-> row.start_time, session_minutes |-> row.session_minutes,
     enabled |-> row.enabled]

C28_BootstrapUpserts ==
    [][DaemonConstructed =>
         LET L == env.bootstrap_schedules
             K == {k \in 1..Len(L) : L[k] \in {Bell, BellWeekend, RecessMoved}}
             old == {schedules[i].name : i \in 1..Len(schedules)}
             new == {UpsertName(L[k]) : k \in K} \ old
         IN  /\ Len(schedules') = Len(schedules) + Cardinality(new)
             /\ \A i \in 1..Len(schedules) :
                    /\ schedules'[i].name = schedules[i].name
                    /\ schedules'[i].last_fired_at = schedules[i].last_fired_at
                    /\ (\A k \in K : UpsertName(L[k]) # schedules[i].name)
                       => schedules'[i] = schedules[i]
             /\ \A k \in K :
                    (\A j \in K : j > k => UpsertName(L[j]) # UpsertName(L[k]))
                    => /\ Cardinality({i \in 1..Len(schedules') :
                              schedules'[i].name = UpsertName(L[k])}) = 1
                       /\ \A i \in 1..Len(schedules') :
                              schedules'[i].name = UpsertName(L[k])
                              => Fields(schedules'[i]) = Upserted(L[k])
             /\ pc # "init" => schedules' = schedules]_vars

C28_Witness ==
    /\ pc = "schedules"
    /\ env.bootstrap_schedules = <<BellWeekend, Bell>>
    /\ trace = <<Ev("bootstrap_applied", 2), Ev("bootstrap_applied", 2)>>
    /\ Len(schedules) = 2
    /\ schedules[2].name = <<"B", "e", "l", "l">>
    /\ Fields(schedules[2]) = Upserted(Bell)
    /\ schedules[2].last_fired_at # NONE

\* C29: a bootstrap definition that cannot be resolved (not a mapping, no name,
\* no playlist, playlist not found, no start time) creates and modifies no
\* schedule row and is logged as one warning; the other definitions of the
\* list are applied as if it were not in the list, and the construction of
\* the daemon succeeds.
C29_UnresolvedSkipped ==
    [][/\ pc = "init" /\ pc' # "init"
       /\ \E k \in 1..Len(env.bootstrap_schedules) :
              env.bootstrap_schedules[k] \in Unresolved
       => LET L == env.bootstrap_schedules
              rest == SelectSeq(L, LAMBDA d : d \notin Unresolved)
          IN  /\ pc' = "schedules"
              /\ player'.backend = "cvlc"
              /\ schedules' = ApplyBootstrapSchedules(schedules, rest).schedules
              /\ rest = <<>> => schedules' = schedules
              /\ \A k \in 1..Len(L) :
                     L[k] \in Unresolved
                     <=> \E e \in 1..Len(trace') :
                            /\ trace'[e].arg = k
                            /\ trace'[e].ev \in
                                   {"warn_not_a_mapping", "warn_missing_name",
                                    "warn_missing_playlist",
                                    "warn_playlist_not_found",
                                    "warn_missing_start_time"}
              /\ Cardinality({e \in 1..Len(trace') :
                                 trace'[e].ev = "bootstrap_applied"})
                     = Len(rest)]_vars

C29_Witness ==
    /\ pc = "schedules"
    /\ env.bootstrap_schedules
           = <<[RecessMoved EXCEPT !.playlist = NameRef(<<"N", "o", "p", "e">>)], Bell>>
    /\ trace = <<Ev("warn_playlist_not_found", 1), Ev("bootstrap_applied", 2)>>
    /\ Len(schedules) = 2
    /\ schedules[1] = [Recess EXCEPT !.session_minutes = 1]
    /\ Fields(schedules[2]) = Upserted(Bell)

\* C30: a tick step that starts a session (load, set volume, play) and applies
\* no SET_VOLUME command sets the player volume to the persisted volume and
\* leaves the persisted volume as it was, for every persisted volume in
\* 0..100, 0 included.
NoVolumeCommand(tr) ==
    \A k \in 1..Len(tr) :
        tr[k].ev = "apply" => commands[tr[k].arg].type # "SET_VOLUME"

C30_SessionStartKeepsVolume ==
    [][/\ Has(trace', "player_play")
       /\ NoVolumeCommand(trace')
       /\ state.volume \in 0..100
       => /\ state'.volume = state.volume
          /\ player'.volume = state.volume]_vars

\* C31: a SKIP drained alone while a session plays track i of n: when
\* i + 1 < n the cursor advances, current_track_id becomes the id of track
\* i + 1, the status stays playing and session_end_at stays; when i is the
\* last track the session has ended (status idle, relay off) when the tick
\* after the one that drained the SKIP has completed.
SkipAdvances ==
    /\ pc = "commands" /\ pc' = "player"
    /\ Len(PendingCommands) = 1
    /\ commands[PendingCommands[1]].type = "SKIP"
    /\ state.status = "playing"
    /\ player.playing
    /\ player.index >= 0
    /\ player.index + 1 < Len(player.files)
    => /\ player'.index = player.index + 1
       /\ state'.current_track_id = current_track_ids[player.index + 2]
       /\ state'.status = "playing"
       /\ state'.session_end_at = state.session_end_at

SkipAtLastEnds ==
    /\ pc = "schedules"
    /\ state.heartbeat_at = clock
    /\ Len(commands) = 2
    /\ \A i \in 1..2 : /\ commands[i].type = "SKIP"
                       /\ commands[i].processed_at # NONE
                       /\ commands[i].processed_at >= StartClock + TickStep
    /\ clock > commands[2].processed_at
    => state.status = "idle" /\ ~IsPowerOn(relay)

C31_SkipAdvancesOrEnds == [][SkipAdvances /\ SkipAtLastEnds']_vars

\* C32: the schedule step of a tick in which an enabled schedule is due and
\* its playlist has no track (and no other schedule with tracks is due)
\* starts no session and leaves the state row, the player and the relay as
\* they were, and stamps the schedule's last_fired_at with the time of the
\* tick; in the schedule steps of the next 50 seconds the attempt is not
\* made again.
Matches(sc) ==
    /\ sc.enabled
    /\ \E k \in 1..Len(sc.days) : sc.days[k] = WeekdayStr(clock)
    /\ sc.start_time = MinuteKey(clock)
    /\ sc.playlist_id # NONE

NoTracks(sc) ==
    sc.playlist_id \notin DOMAIN playlists \/ playlists[sc.playlist_id] = <<>>

C32_EmptyPlaylistStamped ==
    [][pc = "schedules" /\ pc' = "commands" =>
         \A s \in DOMAIN schedules :
             LET sc == schedules[s]
             IN  Matches(sc) /\ NoTracks(sc) =>
                   /\ sc.last_fired_at = NONE
                      => /\ schedules'[s].last_fired_at = clock
                         /\ \E k \in 1..Len(trace') :
                                trace'[k] = Ev("warn_playlist_empty", sc.playlist_id)
                   /\ sc.last_fired_at # NONE /\ clock - sc.last_fired_at < 50
                      => /\ schedules'[s] = sc
                         /\ \A k \in 1..Len(trace') :
                                trace'[k] # Ev("warn_playlist_empty", sc.playlist_id)
                   /\ (\A o \in DOMAIN schedules :
                           Matches(schedules[o]) => NoTracks(schedules[o]))
                      => /\ state' = state
                         /\ player' = player
                         /\ relay' = relay
                         /\ current_track_ids' = current_track_ids
                         /\ ~Has(trace', "session_started")]_vars

C32_Witness ==
    /\ pc = "commands"
    /\ clock = StartClock + 2 * TickStep
    /\ schedules[1].enabled /\ schedules[1].playlist_id = 2
    /\ 2 \in DOMAIN playlists /\ playlists[2] = <<>>
    /\ schedules[1].last_fired_at = StartClock + TickStep
    /\ trace = <<>>
    /\ state.status = "idle"

\* C33: a drain whose commands are all PLAY of an unknown playlist (9) or of
\* an empty one (2), or PREVIEW of a track that does not exist (9) or whose
\* file is missing (4), leaves the state row, the player, the relay and
\* current_track_ids as they were, also while a session is playing; each
\* command is logged as a warning and stamped as processed.
Rejected(c) ==
    \/ c.type = "PLAY" /\ c.playlist_id \in {2, 9}
    \/ c.type = "PREVIEW" /\ c.track_id \in {4, 9}

C33_RejectedLeavesSession ==
    [][/\ pc = "commands" /\ pc' = "player"
       /\ PendingCommands # <<>>
       /\ \A k \in 1..Len(PendingCommands) : Rejected(commands[PendingCommands[k]])
       => /\ state' = state
          /\ player' = player
          /\ relay' = relay
          /\ current_track_ids' = current_track_ids
          /\ \A k \in 1..Len(PendingCommands) :
                 commands'[PendingCommands[k]].processed_at = clock
          /\ Cardinality({k \in 1..Len(trace') :
                 trace'[k].ev \in {"warn_playlist_empty",
                                   "warn_preview_track_missing",
                                   "warn_preview_file_missing"}})
                 = Len(PendingCommands)]_vars

C33_Witness ==
    /\ pc = "player"
    /\ Len(drained) = 2
    /\ commands[drained[1]].type = "PREVIEW" /\ commands[drained[1]].track_id = 4
    /\ commands[drained[2]].type = "PLAY" /\ commands[drained[2]].playlist_id = 2
    /\ trace = <<Ev("apply", drained[1]), Ev("warn_preview_file_missing", 4),
                 Ev("apply", drained[2]), Ev("warn_playlist_empty", 2)>>
    /\ state.status = "playing"
    /\ state.playlist_id = 1
    /\ player.playing
    /\ IsPowerOn(relay)

\* C34: under every interleaving of the writer thread with the calls of the
\* tick thread, no writer thread is ended by an error that is not handled,
\* what a subprocess has read are commands put while it was self._process,
\* in the order of the puts, and once the threads are at rest every command
\* put while a subprocess was running, and which still runs, has been read
\* by it.
AtRest ==
    /\ cvlc.main = "idle"
    /\ \A w \in 1..Len(cvlc.writers) :
           \/ cvlc.writers[w].pc \in {"done", "died"}
           \/ cvlc.writers[w].pc = "get" /\ cvlc.queue = <<>>

C34_WriterOnlyChannel ==
    /\ \A w \in 1..Len(cvlc.writers) : cvlc.writers[w].pc # "died"
    /\ \A h \in 1..Len(cvlc.procs) :
           LET r == cvlc.procs[h].received
           IN  /\ \A k \in 1..Len(r) : r[k].s = h /\ r[k].live
               /\ \A i, j \in 1..Len(r) : i < j => r[i].n < r[j].n
    /\ AtRest =>
           \A k \in 1..Len(cvlc.sent) :
               LET t == cvlc.sent[k]
               IN  t.live /\ cvlc.procs[t.s].alive /\ cvlc.process = t.s
                   => \E i \in 1..Len(cvlc.procs[t.s].received) :
                          cvlc.procs[t.s].received[i] = t

\* C40: what the subprocess of a session reads begins with the volume
\* command and then "play", every line it reads was put for that session,
\* and a writer thread started for a session never takes a token from the
\* queue that was put for an earlier session.
C40_NoStaleToken ==
    /\ \A h \in 1..Len(cvlc.procs) :
           LET r == cvlc.procs[h].received
           IN  /\ \A k \in 1..Len(r) : r[k].s = h
               /\ Len(r) >= 1 => r[1].cmd = "volume"
               /\ Len(r) >= 2 => r[2].cmd = "play"
    /\ \A w \in 1..Len(cvlc.writers) :
           cvlc.writers[w].cmd.s >= cvlc.writers[w].born

\* C35 as stated: after every completed tick, status = playing implies that
\* the relay is powered on.
TickCompleted == pc = "schedules" /\ state.heartbeat_at = clock

C35_PlayingImpliesRelayOn ==
    TickCompleted /\ state.status = "playing" => IsPowerOn(relay)

\* C35 amended: after every completed tick, status = playing implies that the
\* relay is powered on unless a POWER_OFF command has been processed since
\* the session started (the session of a playlist lasts 60 seconds here, the
\* preview 30).
SessionStartedAt ==
    state.session_end_at - (IF state.playlist_id = NONE THEN 30 ELSE 60)

PowerOffSinceStart ==
    \E i \in 1..Len(commands) :
        /\ commands[i].type = "POWER_OFF"
        /\ commands[i].processed_at # NONE
        /\ commands[i].processed_at >= SessionStartedAt

C35_PlayingImpliesRelayOnUnlessPowerOff ==
    TickCompleted /\ state.status = "playing" /\ ~PowerOffSinceStart
    => IsPowerOn(relay)

C35_Witness ==
    /\ TickCompleted
    /\ state.status = "playing"
    /\ IsPowerOn(relay)
    /\ ~PowerOffSinceStart
    /\ Len(commands) = 2
    /\ commands[1].type = "POWER_OFF" /\ commands[1].processed_at = StartClock
    /\ commands[2].type = "PREVIEW" /\ commands[2].processed_at = clock
    /\ SessionStartedAt = clock


\* C36 as stated: when the daemon is restarted on a state row that says
\* status = playing, the first completed tick leaves status = idle with
\* playlist_id, current_track_id and session_end_at cleared and power_on
\* false, unless a schedule or command started a new session in that tick.
FirstTickCompletes == pc = "heartbeat" /\ pc' = "schedules" /\ boot = "playing"

SessionCleared(s) ==
    /\ s.status = "idle"
    /\ s.playlist_id = NONE
    /\ s.current_track_id = NONE
    /\ s.session_end_at = NONE

StopThenPowerOn ==
    \E a, b \in 1..Len(drained) :
        /\ a < b
        /\ commands[drained[a]].type = "STOP"
        /\ commands[drained[b]].type = "POWER_ON"

C37_ShutdownLeavesIdle ==
    pc \in {"stopped", "crashed"}
    => state.status = "idle" /\ ~state.power_on


\* C38: after any sequence of load_playlist, play, stop, skip and set_volume
\* calls on DummyPlayer, current_index() is -1 or a valid index of the loaded
\* file list, and is_playing() implies current_index() >= 0.
C38_DummyIndexValid ==
    /\ PlayerCurrentIndex(player) = -1
       \/ PlayerCurrentIndex(player) \in 0..(Len(player.files) - 1)
    /\ PlayerIsPlaying(player) => PlayerCurrentIndex(player) >= 0


\* C39: for every enabled schedule with a playlist and every minute-aligned
\* time T, a tick at T with no earlier firing in that minute fires the
\* schedule exactly when next_occurrence(schedule, T) = T, whatever the stored
\* days and start_time strings are.
C39_FiringAgreesWithNextOccurrence ==
    call.fn = "tick_schedules" /\ call.done
    => (call.fired <=> call.ret = Returned(call.ref))

====
